---------------------------- MODULE Spec2Model ----------------------------
(***************************************************************************)
(* Model of the NTNU course query application: the best-schedule optimizer *)
(* (app_workers.py, BestScheduleWorker) and the window code that starts,   *)
(* cancels and listens to it (app_mainwindow.py).                          *)
(*                                                                         *)
(* A slot mask is modelled as the set of its set bits.  The two uint64     *)
(* words of a course (_mask_lo, _mask_hi) are sets of bit positions 0..63; *)
(* (hi << 64) | lo is the set lo \cup {b + 64 : b \in hi}; "a & b" is      *)
(* non-zero exactly when the sets intersect and "a | b" is their union.    *)
(* Credits are integers (the unit is the smallest credit step of the       *)
(* table), so that "x + 1e-9 < y" is "x < y".                              *)
(***************************************************************************)
EXTENDS Integers, Sequences, FiniteSets, TLC

(***************************************************************************)
(* Bounds of the model.                                                    *)
(***************************************************************************)
NumCourses == 3
MaxToken == 3
MaxEdits == 1
MaxClicks == 2

(***************************************************************************)
(* Program constants.                                                      *)
(***************************************************************************)
TopK == 5
BITS_PER_DAY == 15
NumDays == 7
WordBits == 64
MissingRank == 1000000000
LeftSpan == 40
RightStart == 40
CrossStart == 80
CrossSpan == 20
ProgressSteps == 200

Courses == 1..NumCourses

(***************************************************************************)
(* slot_to_mask: the bit of (day, period) in the two words.  A day or a    *)
(* period string is modelled by its index in DAYS or PERIODS; a string     *)
(* that is in neither (DAY_INDEX, PERIOD_INDEX have no such key) is a      *)
(* number outside the index range.                                         *)
(***************************************************************************)
DAY_INDEX == 0..(NumDays - 1)
PERIOD_INDEX == 0..(BITS_PER_DAY - 1)

(* slot_to_mask with every bit shifted into one 64-bit word (idx mod 64). *)
slot_to_mask_one_word(day, period) ==
    IF day \notin DAY_INDEX \/ period \notin PERIOD_INDEX
    THEN [lo |-> {}, hi |-> {}]
    ELSE [lo |-> {(day * BITS_PER_DAY + period) % WordBits}, hi |-> {}]

slot_to_mask(day, period) ==
    IF day \notin DAY_INDEX THEN [lo |-> {}, hi |-> {}]
    ELSE IF period \notin PERIOD_INDEX THEN [lo |-> {}, hi |-> {}]
    ELSE LET idx == day * BITS_PER_DAY + period
         IN  IF idx < WordBits THEN [lo |-> {idx}, hi |-> {}]
                               ELSE [lo |-> {}, hi |-> {idx - WordBits}]

(* (int(hi) << 64) | int(lo) *)
Mask128(lo, hi) == lo \cup {b + WordBits : b \in hi}

Min(S) == CHOOSE x \in S : \A y \in S : x <= y
Max(S) == CHOOSE x \in S : \A y \in S : x >= y

RECURSIVE SumSeq(_)
SumSeq(s) == IF s = <<>> THEN 0 ELSE Head(s) + SumSeq(Tail(s))

(* Python's comparison of two lists (or tuples) of integers: a < b. *)
LexLess(a, b) ==
    LET n == IF Len(a) < Len(b) THEN Len(a) ELSE Len(b)
        diff == {i \in 1..n : a[i] # b[i]}
    IN  IF diff = {} THEN Len(a) < Len(b)
        ELSE a[Min(diff)] < b[Min(diff)]

(* list.sort(key=Key): stable, ascending in the key (a list of integers). *)
StableSort(s, Key(_)) ==
    LET Insert(sorted, x) ==
            LET k == Cardinality({j \in 1..Len(sorted) :
                                     ~LexLess(Key(x), Key(sorted[j]))})
            IN  SubSeq(sorted, 1, k) \o <<x>> \o SubSeq(sorted, k + 1, Len(sorted))
        f[i \in 0..Len(s)] == IF i = 0 THEN <<>> ELSE Insert(f[i - 1], s[i])
    IN  f[Len(s)]

(* sorted(S) for a set of integers *)
RECURSIVE SortedSeqOfSet(_)
SortedSeqOfSet(S) ==
    IF S = {} THEN <<>> ELSE <<Min(S)>> \o SortedSeqOfSet(S \ {Min(S)})

(* sorted(xs) for a list of integers *)
SortedInts(xs) == StableSort(xs, LAMBDA x : <<x>>)

SeqToSet(s) == {s[i] : i \in 1..Len(s)}


(***************************************************************************)
(* BestScheduleWorker: the search.  A worker w is the record of the fields *)
(* set by __init__: favorites, locked_ids, included_ids, fav_seq and       *)
(* courses_df (a function from the course ids of the table to rows         *)
(* [credit, lo, hi]).                                                      *)
(***************************************************************************)
NoCandidates ==
    [cand |-> <<>>, base_credit |-> 0, locked_ids |-> <<>>, base_lo |-> {}, base_hi |-> {}]

(* build_candidates without the filter on included_ids (line 135). *)
build_candidates_all_favorites(w) ==
    LET df == w.courses_df
        sub == SortedSeqOfSet(DOMAIN df \cap w.favorites)
        lockedRows == SelectSeq(sub, LAMBDA c : c \in w.locked_ids)
        candRows == SelectSeq(sub, LAMBDA c : c \notin w.locked_ids)
        candidates == [i \in 1..Len(candRows) |->
                          [cid |-> candRows[i], credit |-> df[candRows[i]].credit,
                           mask_lo |-> df[candRows[i]].lo, mask_hi |-> df[candRows[i]].hi]]
    IN  IF sub = <<>> THEN NoCandidates
        ELSE [cand |-> StableSort(candidates, LAMBDA x : <<0 - x.credit, x.cid>>),
              base_credit |-> SumSeq([i \in 1..Len(lockedRows) |-> df[lockedRows[i]].credit]),
              locked_ids |-> SortedInts(lockedRows),
              base_lo |-> UNION {df[c].lo : c \in SeqToSet(lockedRows)},
              base_hi |-> UNION {df[c].hi : c \in SeqToSet(lockedRows)}]

build_candidates(w) ==
    LET df == w.courses_df
        target_ids == w.favorites \cap w.included_ids
        sub == SortedSeqOfSet(DOMAIN df \cap target_ids)
        lockedRows == SelectSeq(sub, LAMBDA c : c \in w.locked_ids)
        candRows == SelectSeq(sub, LAMBDA c : c \notin w.locked_ids)
        candidates == [i \in 1..Len(candRows) |->
                          [cid |-> candRows[i], credit |-> df[candRows[i]].credit,
                           mask_lo |-> df[candRows[i]].lo, mask_hi |-> df[candRows[i]].hi]]
    IN  IF DOMAIN df = {} \/ w.favorites = {} THEN NoCandidates
        ELSE IF target_ids = {} THEN NoCandidates
        ELSE IF sub = <<>> THEN NoCandidates
        ELSE [cand |-> StableSort(candidates, LAMBDA x : <<0 - x.credit, x.cid>>),
              base_credit |-> SumSeq([i \in 1..Len(lockedRows) |-> df[lockedRows[i]].credit]),
              locked_ids |-> SortedInts(lockedRows),
              base_lo |-> UNION {df[c].lo : c \in SeqToSet(lockedRows)},
              base_hi |-> UNION {df[c].hi : c \in SeqToSet(lockedRows)}]

(* fav_seq.get(cid, 10**12) *)
SeqGet(fav_seq, cid) == IF cid \in DOMAIN fav_seq THEN fav_seq[cid] ELSE MissingRank

build_order_map(w) ==
    LET items == StableSort(SortedSeqOfSet(w.favorites),
                            LAMBDA c : <<(IF c \in w.locked_ids THEN -1 ELSE 0),
                                         SeqGet(w.fav_seq, c), c>>)
    IN  [c \in w.favorites |-> CHOOSE k \in 1..Len(items) : items[k] = c]

(* order_map.get(cid, 10**12) *)
OrderGet(order_map, cid) == IF cid \in DOMAIN order_map THEN order_map[cid] ELSE MissingRank

(* prepare without the test of line 196: every candidate is an item. *)
prepare_without_base_filter(w) ==
    LET bc == build_candidates(w)
        order_map == build_order_map(w)
        base_mask == Mask128(bc.base_lo, bc.base_hi)
        items == [i \in 1..Len(bc.cand) |->
                     [cid |-> bc.cand[i].cid, credit |-> bc.cand[i].credit,
                      mask |-> Mask128(bc.cand[i].mask_lo, bc.cand[i].mask_hi),
                      order_val |-> OrderGet(order_map, bc.cand[i].cid)]]
        mid == Len(items) \div 2
    IN  [cand |-> bc.cand, base_credit |-> bc.base_credit, locked_ids |-> bc.locked_ids,
         base_mask |-> base_mask, order_map |-> order_map, items |-> items,
         left_items |-> SubSeq(items, 1, mid),
         right_items |-> SubSeq(items, mid + 1, Len(items))]

(* Lines 186-203: candidates, order map, the filtered items and the split. *)
prepare(w) ==
    LET bc == build_candidates(w)
        order_map == build_order_map(w)
        base_mask == Mask128(bc.base_lo, bc.base_hi)
        all == [i \in 1..Len(bc.cand) |->
                   [cid |-> bc.cand[i].cid, credit |-> bc.cand[i].credit,
                    mask |-> Mask128(bc.cand[i].mask_lo, bc.cand[i].mask_hi),
                    order_val |-> OrderGet(order_map, bc.cand[i].cid)]]
        items == SelectSeq(all, LAMBDA it : it.mask \cap base_mask = {})
        mid == Len(items) \div 2
    IN  [cand |-> bc.cand, base_credit |-> bc.base_credit, locked_ids |-> bc.locked_ids,
         base_mask |-> base_mask, order_map |-> order_map, items |-> items,
         left_items |-> SubSeq(items, 1, mid),
         right_items |-> SubSeq(items, mid + 1, Len(items))]

order_key_for_ids(ids, order_map) ==
    SortedInts([i \in 1..Len(ids) |-> OrderGet(order_map, ids[i])])

(* better_entry comparing credits only (lines 211-215 left out). *)
better_entry_credit_only(a, b, order_map) == a.credit > b.credit

better_entry(a, b, order_map) ==
    IF a.credit # b.credit THEN a.credit > b.credit
    ELSE IF a.priority_sum # b.priority_sum THEN a.priority_sum < b.priority_sum
    ELSE LexLess(order_key_for_ids(a.ids, order_map), order_key_for_ids(b.ids, order_map))

EmptyEntry == [mask |-> {}, credit |-> 0, ids |-> <<>>, priority_sum |-> 0]

(***************************************************************************)
(* The dict "results" of enumerate_half is the sequence of its values in   *)
(* insertion order; the key of a value is its mask.  enumerate_item is one *)
(* pass of the loop body, lines 229-243, for one item of the half.         *)
(***************************************************************************)
enumerate_item(results, item, order_map) ==
    LET snapshot == results
        Put(res, entry) ==
            IF entry.mask \cap item.mask # {} THEN res
            ELSE LET new_entry == [mask |-> entry.mask \cup item.mask,
                                   credit |-> entry.credit + item.credit,
                                   ids |-> Append(entry.ids, item.cid),
                                   priority_sum |-> entry.priority_sum + item.order_val]
                     at == {j \in 1..Len(res) : res[j].mask = new_entry.mask}
                 IN  IF at = {} THEN Append(res, new_entry)
                     ELSE IF better_entry(new_entry, res[Min(at)], order_map)
                          THEN [res EXCEPT ![Min(at)] = new_entry]
                          ELSE res
        f[k \in 0..Len(snapshot)] ==
            IF k = 0 THEN results ELSE Put(f[k - 1], snapshot[k])
    IN  f[Len(snapshot)]

(* enumerate_half without cancellation: the dict after all items. *)
enumerate_half(items_half, order_map) ==
    LET f[i \in 0..Len(items_half)] ==
            IF i = 0 THEN <<EmptyEntry>>
            ELSE enumerate_item(f[i - 1], items_half[i], order_map)
    IN  f[Len(items_half)]

(* Lines 256-260 and 282: the two sorted lists. *)
left_list_of(left_map) == StableSort(left_map, LAMBDA x : <<0 - x.credit>>)
right_list_of(right_map) == StableSort(right_map, LAMBDA x : <<0 - x.credit, x.priority_sum>>)

BestKey(x) == <<0 - x.credits, x.priority_sum>> \o x.order_key

(* consider_combo without the sort and the truncation of lines 278-280. *)
consider_combo_unsorted(best, left, right, locked_ids, base_credit, order_map) ==
    LET ids_all == SortedInts(locked_ids \o left.ids \o right.ids)
        order_key == SortedInts([i \in 1..Len(ids_all) |-> OrderGet(order_map, ids_all[i])])
    IN  Append(best, [credits |-> base_credit + left.credit + right.credit,
                      ids |-> ids_all,
                      order_key |-> order_key,
                      priority_sum |-> SumSeq(order_key)])

consider_combo(best, left, right, locked_ids, base_credit, order_map) ==
    LET ids_all == SortedInts(locked_ids \o left.ids \o right.ids)
        order_key == SortedInts([i \in 1..Len(ids_all) |-> OrderGet(order_map, ids_all[i])])
        entry == [credits |-> base_credit + left.credit + right.credit,
                  ids |-> ids_all,
                  order_key |-> order_key,
                  priority_sum |-> SumSeq(order_key)]
        sorted == StableSort(Append(best, entry), BestKey)
    IN  IF Len(sorted) > TopK THEN SubSeq(sorted, 1, TopK) ELSE sorted

(***************************************************************************)
(* The cross-combination loop, lines 288-307.  A loop state is             *)
(* [li, ri, best, done_pairs]: ri = 0 is the head of the outer loop for    *)
(* left_list[li] (lines 289-294), ri >= 1 is the body of the inner loop    *)
(* for right_list[ri] (lines 296-307).  cx is the loop's context:          *)
(* left_list, right_list, locked_ids, base_credit, order_map.              *)
(***************************************************************************)
max_right_credit(cx) == IF cx.right_list # <<>> THEN cx.right_list[1].credit ELSE 0

cross_done(cs, cx) == cs.li > Len(cx.left_list)

(* The loop body without the test of line 301. *)
cross_step_without_mask_test(cs, cx) ==
    LET left == cx.left_list[cs.li]
        nextLeft == [cs EXCEPT !.li = cs.li + 1, !.ri = 0]
        full == Len(cs.best) = TopK
    IN  IF cs.ri = 0
        THEN IF full /\ cx.base_credit + left.credit + max_right_credit(cx)
                            < cs.best[Len(cs.best)].credits
             THEN nextLeft
             ELSE IF cx.right_list = <<>> THEN nextLeft ELSE [cs EXCEPT !.ri = 1]
        ELSE LET right == cx.right_list[cs.ri]
                 total_credit == cx.base_credit + left.credit + right.credit
                 advance(s) == IF cs.ri = Len(cx.right_list)
                               THEN [s EXCEPT !.li = cs.li + 1, !.ri = 0]
                               ELSE [s EXCEPT !.ri = cs.ri + 1]
             IN  IF full /\ total_credit < cs.best[Len(cs.best)].credits THEN nextLeft
                 ELSE advance([cs EXCEPT
                                 !.best = consider_combo(cs.best, left, right, cx.locked_ids,
                                                         cx.base_credit, cx.order_map),
                                 !.done_pairs = cs.done_pairs + 1])

(* The loop body with the cut of line 299 taken on equal credit too. *)
cross_step_prune_ties(cs, cx) ==
    LET left == cx.left_list[cs.li]
        nextLeft == [cs EXCEPT !.li = cs.li + 1, !.ri = 0]
        full == Len(cs.best) = TopK
    IN  IF cs.ri = 0
        THEN IF full /\ cx.base_credit + left.credit + max_right_credit(cx)
                            < cs.best[Len(cs.best)].credits
             THEN nextLeft
             ELSE IF cx.right_list = <<>> THEN nextLeft ELSE [cs EXCEPT !.ri = 1]
        ELSE LET right == cx.right_list[cs.ri]
                 total_credit == cx.base_credit + left.credit + right.credit
                 advance(s) == IF cs.ri = Len(cx.right_list)
                               THEN [s EXCEPT !.li = cs.li + 1, !.ri = 0]
                               ELSE [s EXCEPT !.ri = cs.ri + 1]
             IN  IF full /\ total_credit <= cs.best[Len(cs.best)].credits THEN nextLeft
                 ELSE IF left.mask \cap right.mask # {} THEN advance(cs)
                 ELSE advance([cs EXCEPT
                                 !.best = consider_combo(cs.best, left, right, cx.locked_ids,
                                                         cx.base_credit, cx.order_map),
                                 !.done_pairs = cs.done_pairs + 1])

(* The loop body with the cut of line 299 comparing with the first entry   *)
(* of best, not the last.                                                  *)
cross_step_cut_below_first(cs, cx) ==
    LET left == cx.left_list[cs.li]
        nextLeft == [cs EXCEPT !.li = cs.li + 1, !.ri = 0]
        full == Len(cs.best) = TopK
    IN  IF cs.ri = 0
        THEN IF full /\ cx.base_credit + left.credit + max_right_credit(cx)
                            < cs.best[Len(cs.best)].credits
             THEN nextLeft
             ELSE IF cx.right_list = <<>> THEN nextLeft ELSE [cs EXCEPT !.ri = 1]
        ELSE LET right == cx.right_list[cs.ri]
                 total_credit == cx.base_credit + left.credit + right.credit
                 advance(s) == IF cs.ri = Len(cx.right_list)
                               THEN [s EXCEPT !.li = cs.li + 1, !.ri = 0]
                               ELSE [s EXCEPT !.ri = cs.ri + 1]
             IN  IF full /\ total_credit < cs.best[1].credits THEN nextLeft
                 ELSE IF left.mask \cap right.mask # {} THEN advance(cs)
                 ELSE advance([cs EXCEPT
                                 !.best = consider_combo(cs.best, left, right, cx.locked_ids,
                                                         cx.base_credit, cx.order_map),
                                 !.done_pairs = cs.done_pairs + 1])

cross_step(cs, cx) ==
    LET left == cx.left_list[cs.li]
        nextLeft == [cs EXCEPT !.li = cs.li + 1, !.ri = 0]
        full == Len(cs.best) = TopK
    IN  IF cs.ri = 0
        THEN IF full /\ cx.base_credit + left.credit + max_right_credit(cx)
                            < cs.best[Len(cs.best)].credits
             THEN nextLeft
             ELSE IF cx.right_list = <<>> THEN nextLeft ELSE [cs EXCEPT !.ri = 1]
        ELSE LET right == cx.right_list[cs.ri]
                 total_credit == cx.base_credit + left.credit + right.credit
                 advance(s) == IF cs.ri = Len(cx.right_list)
                               THEN [s EXCEPT !.li = cs.li + 1, !.ri = 0]
                               ELSE [s EXCEPT !.ri = cs.ri + 1]
             IN  IF full /\ total_credit < cs.best[Len(cs.best)].credits THEN nextLeft
                 ELSE IF left.mask \cap right.mask # {} THEN advance(cs)
                 ELSE advance([cs EXCEPT
                                 !.best = consider_combo(cs.best, left, right, cx.locked_ids,
                                                         cx.base_credit, cx.order_map),
                                 !.done_pairs = cs.done_pairs + 1])

RECURSIVE cross_run(_, _)
cross_run(cs, cx) == IF cross_done(cs, cx) THEN cs ELSE cross_run(cross_step(cs, cx), cx)

cross_context(p, left_map, right_map) ==
    [left_list |-> left_list_of(left_map), right_list |-> right_list_of(right_map),
     locked_ids |-> p.locked_ids, base_credit |-> p.base_credit, order_map |-> p.order_map]

CrossStart0 == [li |-> 1, ri |-> 0, best |-> <<>>, done_pairs |-> 0]

(* _compute_best_combinations with line 187 testing the candidates only. *)
compute_best_combinations_needs_candidates(w) ==
    LET p == prepare(w)
        cx == cross_context(p, enumerate_half(p.left_items, p.order_map),
                               enumerate_half(p.right_items, p.order_map))
    IN  IF p.cand = <<>> THEN <<>>
        ELSE cross_run(CrossStart0, cx).best

(* _compute_best_combinations when no cancellation is requested. *)
compute_best_combinations(w) ==
    LET p == prepare(w)
        cx == cross_context(p, enumerate_half(p.left_items, p.order_map),
                               enumerate_half(p.right_items, p.order_map))
    IN  IF p.cand = <<>> /\ p.locked_ids = <<>> THEN <<>>
        ELSE cross_run(CrossStart0, cx).best


(***************************************************************************)
(* State.  workers maps the id of every BestScheduleWorker created so far  *)
(* to its fields and to the position and the locals of its run(); queue is *)
(* the main thread's event queue, holding the signals the workers emitted  *)
(* (Qt delivers a signal emitted on a pool thread as a queued event, in    *)
(* the order of emission).  The other variables are fields of MainWindow   *)
(* and the files of the user's best_schedule directory; edits counts the   *)
(* edits of the favorites made so far.                                     *)
(***************************************************************************)
VARIABLES workers, queue,
          courses_df, favorites_ids, included_ids, locked_ids, fav_seq, fav_seq_next,
          session_backup, best_worker, best_running, best_token, best_files,
          history_mode, best_progress, btn_best_schedule, best_cache, best_dir, edits,
          layout, readonly_mode, history_selected_file, session_file, user_files,
          sel_lo, sel_hi, show_saturday, tt_drag,
          username, session_file_path, save, save_workers, login_files,
          live_session

vars == <<workers, queue, courses_df, favorites_ids, included_ids, locked_ids, fav_seq,
          fav_seq_next, session_backup, best_worker, best_running, best_token,
          best_files, history_mode, best_progress, btn_best_schedule, best_cache,
          best_dir, edits, layout, readonly_mode, history_selected_file, session_file,
          user_files, sel_lo, sel_hi, show_saturday, tt_drag,
          username, session_file_path, save, save_workers, login_files,
          live_session>>

(* The loaded course table and the timetable built from it. *)
tableVars == <<courses_df, layout>>

favVars == <<favorites_ids, included_ids, locked_ids, fav_seq, fav_seq_next>>

panelVars == <<session_backup, best_worker, best_running, best_token, best_files,
               history_mode, best_progress, btn_best_schedule, history_selected_file>>

(* readonly_mode, the session file of the login and the older files of the *)
(* user's directory.                                                       *)
sessionVars == <<readonly_mode, session_file, user_files>>

(* The time selection of the timetable: _sel_lo, _sel_hi, show_saturday   *)
(* and the fields of the drag that eventFilter keeps (_tt_drag...).        *)
selVars == <<sel_lo, sel_hi, show_saturday, tt_drag>>

(* The login (username, session_file_path), the fields of the autosave    *)
(* (_save_token, _save_latest_token, _save_inflight, _save_pending,        *)
(* _save_pending_snapshot and the two timers), the SaveWorkers started and *)
(* the files of the user directories.                                      *)
saveVars == <<username, session_file_path, save, save_workers, login_files>>

(* The sets of the live session as they were when a read-only preview      *)
(* replaced them: a record of the past, kept to say what                   *)
(* on_back_to_session has to bring back.  The code has no such field; its  *)
(* own copy is session_backup (the _session_*_backup fields).              *)
liveVars == <<live_session>>

windowVars == <<tableVars, sessionVars, liveVars, saveVars, selVars, favVars, panelVars, edits>>

diskVars == <<best_cache, best_dir>>

NoWorker == 0

(* No user is logged in: username is "". *)
NoUser == 0

(* _save_pending_snapshot is None.  A snapshot is the four copies of line   *)
(* 2205; token, path and user record the value of _save_token, the session *)
(* file and the username at the moment it was taken (the code keeps none   *)
(* of the three with the snapshot).                                        *)
NoSnapshot ==
    [present |-> FALSE, fav |-> {}, inc |-> {}, lock |-> {}, seq |-> <<>>,
     token |-> 0, path |-> <<>>, user |-> NoUser]

(* lines 222-230: the autosave fields after construction; timer is the     *)
(* single-shot _autosave_timer being active, single_shots the number of    *)
(* QTimer.singleShot(0, _autosave_now) calls that have not fired yet.      *)
NoSave ==
    [token |-> 0, latest_token |-> 0, inflight |-> FALSE, pending |-> FALSE,
     pending_snapshot |-> NoSnapshot, timer |-> FALSE, single_shots |-> 0]

(* The _tt_drag fields after construction (lines 170-178).  _tt_drag_state *)
(* is None outside a drag and is read only through bool(): FALSE.  A rect  *)
(* or a start cell that is None is the empty tuple.                        *)
NoDrag == [dragging |-> FALSE, state |-> FALSE, start |-> <<>>, base_lo |-> {},
           base_hi |-> {}, last_rect |-> <<>>, initial_rect |-> <<>>, has_moved |-> FALSE]

(***************************************************************************)
(* A user file (app_user_data.py).  save_user_file writes one row per      *)
(* favorite: the id, the two flags and fav_seq.get(cid, 10**12);           *)
(* load_user_file reads the rows back.  The file is the function from the  *)
(* ids of its rows to the rows.                                            *)
(***************************************************************************)
NoFile == [present |-> FALSE, rows |-> <<>>]

save_user_file(favorites, included, locked, seq) ==
    [present |-> TRUE,
     rows |-> [c \in favorites |->
                  [in_course |-> IF c \in included THEN 1 ELSE 0,
                   is_lock |-> IF c \in locked THEN 1 ELSE 0,
                   seq |-> IF c \in DOMAIN seq THEN seq[c] ELSE MissingRank]]]

(* load_user_file: fav, inc & fav, seq, locked & fav, with inc |= locked *)
load_user_file(file) ==
    LET fav == DOMAIN file.rows
        locked == {c \in fav : file.rows[c].is_lock = 1}
        inc == {c \in fav : file.rows[c].in_course = 1} \cup locked
    IN  [fav |-> fav, inc |-> inc \cap fav,
         seq |-> [c \in fav |-> file.rows[c].seq], lock |-> locked \cap fav]
NoBackup == [present |-> FALSE, favorites |-> {}, included |-> {}, locked |-> {}, seq |-> <<>>]

(* No best_schedule_cache.json in the user's directory.  updated_at, a     *)
(* time stamp in the file, is the token of the run that wrote the file.    *)
NoCache ==
    [favorites |-> <<>>, locked |-> <<>>, files |-> <<>>, updated_at |-> 0,
     present |-> FALSE]

(* No call of build_timetable_matrix_per_day_lanes_sorted is under way. *)
NoLayout ==
    [pc |-> "idle", show_days |-> <<>>, rows |-> <<>>, idx |-> 0, used_by_slot |-> <<>>,
     lane_of |-> <<>>, max_lane |-> 1, day_lanes |-> <<>>, col_day_idx |-> <<>>,
     matrix |-> <<>>, id_matrix |-> <<>>, locked_matrix |-> <<>>, conflict_slots |-> <<>>]

EmptyPlan ==
    [cand |-> <<>>, base_credit |-> 0, locked_ids |-> <<>>, base_mask |-> {},
     order_map |-> <<>>, items |-> <<>>, left_items |-> <<>>, right_items |-> <<>>]

EmptyContext ==
    [left_list |-> <<>>, right_list |-> <<>>, locked_ids |-> <<>>, base_credit |-> 0,
     order_map |-> <<>>]

(* BestScheduleWorker.__init__, lines 95-106, and the locals of run(). *)
new_worker(token, favorites, locked, included, seq, df) ==
    [token |-> token, favorites |-> favorites, locked_ids |-> locked,
     included_ids |-> included, fav_seq |-> seq, courses_df |-> df,
     cancel_requested |-> FALSE, progress_last |-> -1,
     pc |-> "queued", plan |-> EmptyPlan, idx |-> 0, dict |-> <<>>, left_map |-> <<>>,
     cx |-> EmptyContext, cs |-> CrossStart0, results |-> <<>>,
     widx |-> 0, files |-> <<>>, used_names |-> {}]

(* The same collections read through the window's own objects, as they    *)
(* would be had __init__ kept the references it is given.                  *)
worker_inputs_live(i) ==
    [favorites |-> favorites_ids, locked_ids |-> locked_ids,
     included_ids |-> included_ids, fav_seq |-> fav_seq,
     courses_df |-> workers[i].courses_df]

(* The collections a run reads: the copies made by __init__, lines 98-102. *)
worker_inputs(i) ==
    [favorites |-> workers[i].favorites, locked_ids |-> workers[i].locked_ids,
     included_ids |-> workers[i].included_ids, fav_seq |-> workers[i].fav_seq,
     courses_df |-> workers[i].courses_df]

(* _emit_progress without the test of _progress_last, lines 113-114. *)
emit_progress_always(w, value) ==
    LET v == IF value < 0 THEN 0 ELSE IF value > 100 THEN 100 ELSE value
    IN  [last |-> v, out |-> <<[kind |-> "progress", token |-> w.token, value |-> v]>>]

(* _emit_progress: the new _progress_last and the signals emitted (0 or 1). *)
emit_progress(w, value) ==
    LET v == IF value < 0 THEN 0 ELSE IF value > 100 THEN 100 ELSE value
    IN  IF v = w.progress_last
        THEN [last |-> w.progress_last, out |-> <<>>]
        ELSE [last |-> v, out |-> <<[kind |-> "progress", token |-> w.token, value |-> v]>>]

finished_signal(w, ok, cancelled, files, msg) ==
    [kind |-> "finished", token |-> w.token, ok |-> ok, cancelled |-> cancelled,
     files |-> files, msg |-> msg]

(* the two calls of emit_cancelled in the other order *)
emit_cancelled_finished_first(w) ==
    <<finished_signal(w, FALSE, TRUE, <<>>, "")>> \o emit_progress(w, 100).out

(* self._emit_progress(100); self.finished.emit(token, False, True, [], "") *)
emit_cancelled(w) ==
    emit_progress(w, 100).out \o <<finished_signal(w, FALSE, TRUE, <<>>, "")>>


(***************************************************************************)
(* BestScheduleWorker.run, one action per stretch of code between two      *)
(* reads of _cancel_requested.  pc is the position of the run:             *)
(*   queued   started on the pool, run() not yet entered                   *)
(*   left     in enumerate_half(left_items, 0, 40), before item idx        *)
(*   right    in enumerate_half(right_items, 40, 40), before item idx      *)
(*   cross    in the cross-combination loop, at loop state cs              *)
(*   computed _compute_best_combinations has returned (before line 371)    *)
(*   write    in _write_results, before entry widx                         *)
(*   written  _write_results has returned (before line 377)                *)
(*   emit     past the last read of the flag (lines 382-388)               *)
(*   except   an exception is propagating to line 389                      *)
(*   done     finished has been emitted                                    *)
(***************************************************************************)
SetWorker(i, w) == workers' = [workers EXCEPT ![i] = w]

half_progress(start, span, idx, total) == start + ((span * idx) \div total)

cross_total_pairs(cx) == Len(cx.left_list) * Len(cx.right_list)

cross_progress_step(cx) ==
    IF cross_total_pairs(cx) > 0
    THEN (IF cross_total_pairs(cx) \div ProgressSteps > 1
          THEN cross_total_pairs(cx) \div ProgressSteps ELSE 1)
    ELSE 1

(* Lines 369-370 and 186-203. *)
RunBegin(i) ==
    LET w == workers[i]
        e == emit_progress(w, 0)
        p == prepare(worker_inputs(i))
    IN  /\ w.pc = "queued"
        /\ queue' = queue \o e.out
        /\ IF p.cand = <<>> /\ p.locked_ids = <<>>
           THEN SetWorker(i, [w EXCEPT !.progress_last = e.last, !.results = <<>>,
                                       !.pc = "computed"])
           ELSE SetWorker(i, [w EXCEPT !.progress_last = e.last, !.plan = p, !.idx = 1,
                                       !.dict = <<EmptyEntry>>, !.pc = "left"])
        /\ UNCHANGED <<windowVars, diskVars>>

(* One pass of the loop of enumerate_half, lines 226-246. *)
enumerate_pass(w, items_half, progress_start, progress_span) ==
    LET e == emit_progress(w, half_progress(progress_start, progress_span, w.idx,
                                            Len(items_half)))
    IN  IF w.cancel_requested
        THEN [w |-> [w EXCEPT !.results = <<>>, !.pc = "computed"], out |-> <<>>]
        ELSE [w |-> [w EXCEPT !.dict = enumerate_item(w.dict, items_half[w.idx],
                                                      w.plan.order_map),
                              !.idx = w.idx + 1, !.progress_last = e.last],
              out |-> e.out]

EnumerateLeft(i) ==
    LET w == workers[i]
        r == enumerate_pass(w, w.plan.left_items, 0, LeftSpan)
    IN  /\ w.pc = "left"
        /\ w.idx <= Len(w.plan.left_items)
        /\ SetWorker(i, r.w)
        /\ queue' = queue \o r.out
        /\ UNCHANGED <<windowVars, diskVars>>

(* Lines 247, 249-252: the left map is complete. *)
LeftDone(i) ==
    LET w == workers[i]
    IN  /\ w.pc = "left"
        /\ w.idx > Len(w.plan.left_items)
        /\ IF w.cancel_requested
           THEN SetWorker(i, [w EXCEPT !.results = <<>>, !.pc = "computed"])
           ELSE SetWorker(i, [w EXCEPT !.left_map = w.dict, !.dict = <<EmptyEntry>>,
                                       !.idx = 1, !.pc = "right"])
        /\ UNCHANGED <<queue, windowVars, diskVars>>

EnumerateRight(i) ==
    LET w == workers[i]
        r == enumerate_pass(w, w.plan.right_items, RightStart, LeftSpan)
    IN  /\ w.pc = "right"
        /\ w.idx <= Len(w.plan.right_items)
        /\ SetWorker(i, r.w)
        /\ queue' = queue \o r.out
        /\ UNCHANGED <<windowVars, diskVars>>

(* Lines 247, 253-286: the right map is complete, the lists are sorted. *)
RightDone(i) ==
    LET w == workers[i]
    IN  /\ w.pc = "right"
        /\ w.idx > Len(w.plan.right_items)
        /\ IF w.cancel_requested
           THEN SetWorker(i, [w EXCEPT !.results = <<>>, !.pc = "computed"])
           ELSE SetWorker(i, [w EXCEPT !.cx = cross_context(w.plan, w.left_map, w.dict),
                                       !.cs = CrossStart0, !.pc = "cross"])
        /\ UNCHANGED <<queue, windowVars, diskVars>>

(* One step of the cross-combination loop, lines 288-307. *)
CrossStep(i) ==
    LET w == workers[i]
        cs2 == cross_step(w.cs, w.cx)
        e == IF /\ cs2.done_pairs # w.cs.done_pairs
                /\ cs2.done_pairs % cross_progress_step(w.cx) = 0
                /\ cross_total_pairs(w.cx) > 0
             THEN emit_progress(w, CrossStart + ((CrossSpan * cs2.done_pairs)
                                                   \div cross_total_pairs(w.cx)))
             ELSE [last |-> w.progress_last, out |-> <<>>]
    IN  /\ w.pc = "cross"
        /\ ~cross_done(w.cs, w.cx)
        /\ IF w.cancel_requested
           THEN /\ SetWorker(i, [w EXCEPT !.results = <<>>, !.pc = "computed"])
                /\ UNCHANGED queue
           ELSE /\ SetWorker(i, [w EXCEPT !.cs = cs2, !.progress_last = e.last])
                /\ queue' = queue \o e.out
        /\ UNCHANGED <<windowVars, diskVars>>

(* Lines 309-311. *)
CrossDone(i) ==
    LET w == workers[i]
    IN  /\ w.pc = "cross"
        /\ cross_done(w.cs, w.cx)
        /\ SetWorker(i, [w EXCEPT !.results = w.cs.best, !.pc = "computed"])
        /\ UNCHANGED <<queue, windowVars, diskVars>>

(* Lines 371-376 and 314-322. *)
CheckComputed(i) ==
    LET w == workers[i]
    IN  /\ w.pc = "computed"
        /\ IF w.cancel_requested
           THEN /\ SetWorker(i, [w EXCEPT !.progress_last = 100, !.pc = "done"])
                /\ queue' = queue \o emit_cancelled(w)
           ELSE /\ SetWorker(i, [w EXCEPT !.files = <<>>, !.used_names = {}, !.widx = 1,
                                          !.pc = IF w.results = <<>> THEN "written"
                                                 ELSE "write"])
                /\ UNCHANGED queue
        /\ UNCHANGED <<windowVars, diskVars>>

(* Lines 327-342: a file name is <<credits, priority_sum, k>>; k = 1 is the *)
(* plain name, k >= 2 the name with the suffix _k.                          *)
result_filename(entry, used_names) ==
    LET plain == <<entry.credits, entry.priority_sum, 1>>
        free == {k \in 2..(Cardinality(used_names) + 2) :
                    <<entry.credits, entry.priority_sum, k>> \notin used_names}
    IN  IF plain \notin used_names THEN plain
        ELSE <<entry.credits, entry.priority_sum, Min(free)>>

(* One pass of the loop of _write_results, lines 324-356. *)
WriteEntry(i) ==
    LET w == workers[i]
        filename == result_filename(w.results[w.widx], w.used_names)
    IN  /\ w.pc = "write"
        /\ w.widx <= Len(w.results)
        /\ IF w.cancel_requested
           THEN /\ SetWorker(i, [w EXCEPT !.files = <<>>, !.pc = "written"])
                /\ UNCHANGED best_dir
           ELSE /\ SetWorker(i, [w EXCEPT !.files = Append(w.files, filename),
                                          !.used_names = w.used_names \cup {filename},
                                          !.widx = w.widx + 1])
                /\ best_dir' = best_dir \cup {filename}
        /\ UNCHANGED <<queue, windowVars, best_cache>>

(* Lines 358-365: save_best_schedule_cache and return files. *)
SaveCache(i) ==
    LET w == workers[i]
    IN  /\ w.pc = "write"
        /\ w.widx > Len(w.results)
        /\ best_cache' = [favorites |-> SortedSeqOfSet(w.favorites),
                          locked |-> SortedSeqOfSet(w.locked_ids),
                          files |-> w.files, updated_at |-> w.token, present |-> TRUE]
        /\ SetWorker(i, [w EXCEPT !.pc = "written"])
        /\ UNCHANGED <<queue, windowVars, best_dir>>

(* save_user_file or save_best_schedule_cache raises (the disk refuses). *)
WriteFails(i) ==
    LET w == workers[i]
    IN  /\ w.pc = "write"
        /\ w.widx > Len(w.results) \/ ~w.cancel_requested
        /\ SetWorker(i, [w EXCEPT !.pc = "except"])
        /\ UNCHANGED <<queue, windowVars, diskVars>>

(* Lines 377-380. *)
CheckWritten(i) ==
    LET w == workers[i]
    IN  /\ w.pc = "written"
        /\ IF w.cancel_requested
           THEN /\ SetWorker(i, [w EXCEPT !.progress_last = 100, !.pc = "done"])
                /\ queue' = queue \o emit_cancelled(w)
           ELSE /\ SetWorker(i, [w EXCEPT !.pc = "emit"])
                /\ UNCHANGED queue
        /\ UNCHANGED <<windowVars, diskVars>>

(* Lines 382-388. *)
EmitFinished(i) ==
    LET w == workers[i]
        e == emit_progress(w, 100)
    IN  /\ w.pc = "emit"
        /\ SetWorker(i, [w EXCEPT !.progress_last = e.last, !.pc = "done"])
        /\ queue' = queue \o e.out \o
                    (IF w.files = <<>> /\ w.results # <<>>
                     THEN <<finished_signal(w, FALSE, FALSE, <<>>, "write")>>
                     ELSE <<finished_signal(w, TRUE, FALSE, w.files, "")>>)
        /\ UNCHANGED <<windowVars, diskVars>>

(* Lines 389-394. *)
HandleException(i) ==
    LET w == workers[i]
    IN  /\ w.pc = "except"
        /\ IF w.cancel_requested
           THEN /\ SetWorker(i, [w EXCEPT !.progress_last = 100, !.pc = "done"])
                /\ queue' = queue \o emit_cancelled(w)
           ELSE /\ SetWorker(i, [w EXCEPT !.pc = "done"])
                /\ queue' = Append(queue, finished_signal(w, FALSE, FALSE, <<>>, "error"))
        /\ UNCHANGED <<windowVars, diskVars>>

(* BestScheduleWorker.cancel, line 109. *)
cancel(i) == SetWorker(i, [workers[i] EXCEPT !.cancel_requested = TRUE])

WorkerStep(i) ==
    \/ RunBegin(i)
    \/ EnumerateLeft(i)
    \/ LeftDone(i)
    \/ EnumerateRight(i)
    \/ RightDone(i)
    \/ CrossStep(i)
    \/ CrossDone(i)
    \/ CheckComputed(i)
    \/ WriteEntry(i)
    \/ SaveCache(i)
    \/ WriteFails(i)
    \/ CheckWritten(i)
    \/ EmitFinished(i)
    \/ HandleException(i)


(***************************************************************************)
(* Inputs.  A course table row is built from the course's slot set by      *)
(* slots_set_to_masks; a slot is a pair <<day index, period index>>.       *)
(***************************************************************************)
slots_set_to_masks(slots) ==
    [lo |-> UNION {slot_to_mask(sl[1], sl[2]).lo : sl \in slots},
     hi |-> UNION {slot_to_mask(sl[1], sl[2]).hi : sl \in slots}]

course_row(credit, slots) ==
    [credit |-> credit, slots |-> slots, lo |-> slots_set_to_masks(slots).lo,
     hi |-> slots_set_to_masks(slots).hi]

(* Monday period 3 (bit 3), Tuesday period 3 (bit 18), Friday period 10    *)
(* (bit 70, in the high word).                                             *)
SlotA == <<0, 3>>
SlotB == <<4, 10>>
SlotC == <<1, 3>>

Credits == {1, 2}

(***************************************************************************)
(* What a favorite can be, from the optimizer's side: shown in the         *)
(* timetable or not, locked or not, with a row in the loaded course table  *)
(* or without one (the table was reloaded after the course was favorited). *)
(* Rows of courses that are not included are never read.                   *)
(***************************************************************************)
Profile(inc, lock, row, credit, slots) ==
    [inc |-> inc, lock |-> lock, row |-> row, credit |-> credit, slots |-> slots]

SearchProfiles ==
    {Profile(FALSE, FALSE, TRUE, 1, {})}
    \cup {Profile(TRUE, FALSE, TRUE, cr, sl) :
             cr \in Credits, sl \in {{SlotA}, {SlotB}, {SlotC}}}
    \cup {Profile(TRUE, FALSE, TRUE, 2, {SlotA, SlotB}), Profile(TRUE, FALSE, TRUE, 1, {})}
    \cup {Profile(TRUE, TRUE, TRUE, 1, sl) : sl \in {{}, {SlotA}}}
    \cup {Profile(TRUE, TRUE, FALSE, 1, {})}

RunProfiles ==
    {Profile(TRUE, FALSE, TRUE, 1, {SlotA}), Profile(TRUE, FALSE, TRUE, 1, {SlotB}),
     Profile(TRUE, FALSE, TRUE, 1, {SlotC}), Profile(FALSE, FALSE, TRUE, 1, {}),
     Profile(TRUE, TRUE, TRUE, 1, {SlotA})}

(* Rank orders of the favorites: by ascending and by descending id. *)
Orders == {[c \in Courses |-> IF up THEN c ELSE NumCourses + 1 - c] : up \in BOOLEAN}

table_of(prof) ==
    [c \in {d \in Courses : prof[d].row} |-> course_row(prof[c].credit, prof[c].slots)]

(* The state right after on_start_best_schedule created worker 1. *)
StartedWith(prof, seq) ==
    /\ courses_df = table_of(prof)
    /\ favorites_ids = Courses
    /\ included_ids = {c \in Courses : prof[c].inc}
    /\ locked_ids = {c \in Courses : prof[c].lock}
    /\ fav_seq = seq
    /\ fav_seq_next = NumCourses + 1
    /\ session_backup = [present |-> TRUE, favorites |-> Courses,
                         included |-> {c \in Courses : prof[c].inc},
                         locked |-> {c \in Courses : prof[c].lock}, seq |-> seq]
    /\ workers = (1 :> new_worker(1, Courses, {c \in Courses : prof[c].lock},
                                  {c \in Courses : prof[c].inc}, seq, table_of(prof)))
    /\ queue = <<>>
    /\ best_worker = 1
    /\ best_running = TRUE
    /\ best_token = 1
    /\ best_files = <<>>
    /\ history_mode = "best"
    /\ best_progress = 0
    /\ btn_best_schedule = FALSE
    /\ best_cache = NoCache
    /\ best_dir = {}
    /\ edits = 0
    /\ layout = NoLayout
    /\ readonly_mode = FALSE
    /\ history_selected_file = NoFile
    /\ session_file = save_user_file(favorites_ids, included_ids, locked_ids, fav_seq)
    /\ user_files = {}
    /\ live_session = NoBackup
    /\ username = 1
    /\ session_file_path = <<1, 1>>
    /\ save = NoSave
    /\ save_workers = <<>>
    /\ login_files = <<>>
    /\ sel_lo = {}
    /\ sel_hi = {}
    /\ show_saturday = FALSE
    /\ tt_drag = NoDrag

(***************************************************************************)
(* SpecSearch: _compute_best_combinations as a function of its inputs.     *)
(***************************************************************************)
InitSearch == \E prof \in [Courses -> SearchProfiles], seq \in Orders : StartedWith(prof, seq)

Search ==
    /\ workers[1].pc = "queued"
    /\ SetWorker(1, [workers[1] EXCEPT !.results = compute_best_combinations(worker_inputs(1)),
                                       !.pc = "computed"])
    /\ UNCHANGED <<queue, windowVars, diskVars>>

NextSearch == Search

SpecSearch == InitSearch /\ [][NextSearch]_vars

(***************************************************************************)
(* SpecRun: one run of BestScheduleWorker.run, with cancel() called by the *)
(* main thread at any moment before finished is emitted.                   *)
(***************************************************************************)
InitRun == \E prof \in [Courses -> RunProfiles], seq \in Orders : StartedWith(prof, seq)

CancelRun ==
    /\ workers[1].pc # "done"
    /\ ~workers[1].cancel_requested
    /\ cancel(1)
    /\ UNCHANGED <<queue, windowVars, diskVars>>

NextRun == WorkerStep(1) \/ CancelRun

SpecRun == InitRun /\ [][NextRun]_vars


(***************************************************************************)
(* The ranking contract and the conflict-free selections, stated on the    *)
(* inputs of worker 1 without the search: what the results are compared    *)
(* with.                                                                   *)
(***************************************************************************)
Inp == worker_inputs(1)

Table == Inp.courses_df

RowSlots(c) == Mask128(Table[c].lo, Table[c].hi)

(* B: favorited, included and locked; P: favorited, included, not locked. *)
LockedBase == (Inp.favorites \cap Inp.included_ids) \cap Inp.locked_ids
OptionalPool == (Inp.favorites \cap Inp.included_ids) \ Inp.locked_ids

BaseRows == LockedBase \cap DOMAIN Table
PoolRows == OptionalPool \cap DOMAIN Table

BaseSlots == UNION {RowSlots(c) : c \in BaseRows}

(* d is ranked before c: locked favorites first, then by fav_seq, then by id. *)
RankedBefore(d, c) ==
    LET ld == d \in Inp.locked_ids
        lc == c \in Inp.locked_ids
        sd == SeqGet(Inp.fav_seq, d)
        sc == SeqGet(Inp.fav_seq, c)
    IN  \/ ld /\ ~lc
        \/ (ld <=> lc) /\ sd < sc
        \/ (ld <=> lc) /\ sd = sc /\ d < c

PriorityRank(c) == 1 + Cardinality({d \in Inp.favorites : RankedBefore(d, c)})

RECURSIVE SetCredit(_)
SetCredit(S) ==
    IF S = {} THEN 0
    ELSE LET c == CHOOSE x \in S : TRUE IN Table[c].credit + SetCredit(S \ {c})

RankList(S) == SortedSeqOfSet({PriorityRank(c) : c \in S})

(* The ranking contract as a key: credit descending, rank sum ascending,   *)
(* sorted rank list ascending.  S ranks strictly above T when its key is   *)
(* the smaller one.                                                        *)
ContractKey(S) == <<0 - SetCredit(S), SumSeq(RankList(S))>> \o RankList(S)

RanksAbove(S, T) == LexLess(ContractKey(S), ContractKey(T))

PairwiseDisjoint(S) == \A a, b \in S : a # b => RowSlots(a) \cap RowSlots(b) = {}

ConflictFree(S) == PairwiseDisjoint(S) /\ \A a \in S : RowSlots(a) \cap BaseSlots = {}

(* Every conflict-free selection of optional courses (brute force). *)
Selections == {S \in SUBSET PoolRows : ConflictFree(S)}

BestSelection ==
    LET keyed == {[set |-> S, key |-> ContractKey(BaseRows \cup S)] : S \in Selections}
    IN  (CHOOSE p \in keyed : \A q \in keyed : ~LexLess(q.key, p.key)).set

Returned == workers[1].pc = "computed" /\ ~workers[1].cancel_requested

ResultIds(k) == SeqToSet(workers[1].results[k].ids)

ResultSets == {ResultIds(k) : k \in 1..Len(workers[1].results)}

(* C1: in every returned result no two course ids, locked or optional,     *)
(* have intersecting slot masks.                                           *)
C1_PairwiseSlotDisjoint ==
    Returned => \A k \in 1..Len(workers[1].results) : PairwiseDisjoint(ResultIds(k))

C3_TopOneIsBruteForceBest ==
    (Returned /\ BaseRows \cup PoolRows # {}) =>
        /\ workers[1].results # <<>>
        /\ ResultIds(1) = BaseRows \cup BestSelection

C3_Witness ==
    /\ Returned
    /\ Cardinality(BestSelection) >= 2
    /\ \E T \in Selections : T # BestSelection /\ SetCredit(T) = SetCredit(BestSelection)
    /\ ResultIds(1) = BaseRows \cup BestSelection


(* C5: the results have pairwise different id sets and are the 5 best of   *)
(* all conflict-free selections (all of them when fewer than 5 exist): no  *)
(* selection missing from the list ranks above an entry of the list.       *)
C5_TopFiveOfAllSelections ==
    (Returned /\ BaseRows \cup PoolRows # {}) =>
        /\ Cardinality(ResultSets) = Len(workers[1].results)
        /\ Len(workers[1].results) =
               (IF Cardinality(Selections) < TopK THEN Cardinality(Selections) ELSE TopK)
        /\ \A S \in Selections :
               (BaseRows \cup S) \notin ResultSets =>
                   \A R \in ResultSets : ~RanksAbove(BaseRows \cup S, R)

(***************************************************************************)
(* The two halves of the split, and the selections that survive the        *)
(* per-bitset tables of enumerate_half: a selection survives when, in each *)
(* half, no other conflict-free set of that half occupies exactly the same *)
(* slots and ranks above its part in that half.                            *)
(***************************************************************************)
HalfIds(items_half) == {items_half[k].cid : k \in 1..Len(items_half)}

SlotsOf(S) == UNION {RowSlots(c) : c \in S}

(* The sets of a half that no other conflict-free set of the half with the *)
(* same slots ranks above.                                                 *)
HalfBest(H) ==
    LET keyed == {[set |-> S, key |-> ContractKey(S), slots |-> SlotsOf(S)] :
                     S \in {T \in SUBSET H : PairwiseDisjoint(T)}}
    IN  {p.set : p \in {p \in keyed :
                           \A q \in keyed : q.slots = p.slots => ~LexLess(q.key, p.key)}}

Survivors ==
    LET p == prepare(Inp)
        L == HalfIds(p.left_items)
        R == HalfIds(p.right_items)
        bestL == HalfBest(L)
        bestR == HalfBest(R)
    IN  {S \in Selections : S \cap L \in bestL /\ S \cap R \in bestR}

(* C5 as amended: the results have pairwise different id sets and are the  *)
(* 5 best (all, when fewer than 5 exist) of the selections that survive    *)
(* the per-bitset tables of the two halves.                                *)
C5_TopFiveOfSurvivors ==
    (Returned /\ BaseRows \cup PoolRows # {}) =>
        LET survivors == Survivors
            results == ResultSets
        IN  /\ Cardinality(results) = Len(workers[1].results)
            /\ Len(workers[1].results) =
                   (IF Cardinality(survivors) < TopK THEN Cardinality(survivors) ELSE TopK)
            /\ \A R \in results : \E S \in survivors : R = BaseRows \cup S
            /\ \A S \in survivors :
                   (BaseRows \cup S) \notin results =>
                       \A R \in results : ~RanksAbove(BaseRows \cup S, R)

C5_Witness ==
    /\ Returned
    /\ Cardinality(Survivors) >= 4
    /\ Cardinality(Selections) > Cardinality(Survivors)
    /\ Len(workers[1].results) = Cardinality(Survivors)


(***************************************************************************)
(* One run (SpecRun): the bounded list during the cross-combination loop,  *)
(* cancellation, and the progress values emitted.                          *)
(***************************************************************************)
BestIds(k) == SeqToSet(workers[1].cs.best[k].ids)

(* C4: in every state of a run the bounded list has at most 5 entries and  *)
(* no entry ranks above the entry before it (credit descending, then rank  *)
(* sum ascending, then sorted rank list ascending); so has the list the    *)
(* search returns.                                                         *)
C4_BoundedAndSorted ==
    /\ Len(workers[1].cs.best) <= TopK
    /\ \A k \in 1..(Len(workers[1].cs.best) - 1) : ~RanksAbove(BestIds(k + 1), BestIds(k))
    /\ Len(workers[1].results) <= TopK
    /\ \A k \in 1..(Len(workers[1].results) - 1) : ~RanksAbove(ResultIds(k + 1), ResultIds(k))

C4_Witness ==
    /\ workers[1].pc = "cross"
    /\ Len(workers[1].cs.best) = TopK
    /\ workers[1].cs.done_pairs > TopK
    /\ \E k \in 1..(TopK - 1) : RanksAbove(BestIds(k), BestIds(k + 1))

FinishedOf(i) == SelectSeq(queue, LAMBDA m : m.kind = "finished" /\ m.token = workers[i].token)

(* C6: a run whose cancellation was requested before it emitted finished   *)
(* emits finished with cancelled = True and an empty file list.            *)
C6_CancelYieldsCancelled ==
    (workers[1].pc = "done" /\ workers[1].cancel_requested) =>
        /\ Len(FinishedOf(1)) = 1
        /\ FinishedOf(1)[1].cancelled
        /\ FinishedOf(1)[1].files = <<>>

ProgressOf(i) == SelectSeq(queue, LAMBDA m : m.kind = "progress" /\ m.token = workers[i].token)

(* C10: the progress values a run has emitted are non-decreasing, lie in   *)
(* 0..100, and no two consecutive ones are equal.                          *)
C10_ProgressMonotone ==
    LET p == ProgressOf(1)
    IN  /\ \A k \in 1..Len(p) : p[k].value \in 0..100
        /\ \A k \in 1..(Len(p) - 1) : p[k].value <= p[k + 1].value /\ p[k].value # p[k + 1].value

C10_Witness ==
    /\ workers[1].pc = "done"
    /\ Len(FinishedOf(1)) = 1 /\ FinishedOf(1)[1].ok
    /\ workers[1].cs.done_pairs = cross_total_pairs(workers[1].cx)
    /\ workers[1].cs.done_pairs >= 4
    /\ Len(ProgressOf(1)) >= 5


(***************************************************************************)
(* Spec: the window.  The user is logged in, a course table is loaded, no  *)
(* history file is selected (readonly_mode is False throughout).  The user *)
(* starts and interrupts best-schedule runs and closes the result panel,   *)
(* while the workers run on the pool and the queued                        *)
(* signals are delivered to the window's slots.  The run token is counted  *)
(* up to MaxToken.                                                         *)
(***************************************************************************)
(* _capture_session_snapshot(force=True), lines 2327-2330. *)
capture_session_snapshot ==
    [present |-> TRUE, favorites |-> favorites_ids, included |-> included_ids,
     locked |-> locked_ids, seq |-> fav_seq]

(* _close_history_panel, lines 2436-2451. *)
close_history_panel ==
    /\ history_mode' = "none"
    /\ best_running' = FALSE
    /\ best_files' = <<>>
    /\ btn_best_schedule' = TRUE
    /\ history_selected_file' = NoFile
    /\ session_backup' = NoBackup

(* _enter_best_schedule_results, lines 2419-2434. *)
enter_best_schedule_results ==
    /\ session_backup' = capture_session_snapshot
    /\ history_mode' = "best"
    /\ best_running' = FALSE
    /\ btn_best_schedule' = FALSE
    /\ UNCHANGED history_selected_file

(* The cache of on_start_best_schedule, lines 2477-2489, can be reused. *)
cache_reusable ==
    /\ best_cache.present
    /\ best_cache.favorites = SortedSeqOfSet(favorites_ids)
    /\ best_cache.locked = SortedSeqOfSet(locked_ids)
    /\ best_cache.files # <<>>
    /\ SeqToSet(best_cache.files) \subseteq best_dir

(* on_start_best_schedule, lines 2462-2514: a click on btn_best_schedule. *)
on_start_best_schedule ==
    /\ btn_best_schedule
    /\ IF favorites_ids = {} \/ best_running
       THEN UNCHANGED <<workers, panelVars>>
       ELSE IF cache_reusable
       THEN /\ best_files' = best_cache.files
            /\ enter_best_schedule_results
            /\ UNCHANGED <<workers, best_worker, best_token, best_progress>>
       ELSE /\ best_token < MaxToken
            /\ session_backup' = capture_session_snapshot
            /\ history_mode' = "best"
            /\ best_running' = TRUE
            /\ best_progress' = 0
            /\ btn_best_schedule' = FALSE
            /\ best_token' = best_token + 1
            /\ workers' = Append(workers, new_worker(best_token + 1, favorites_ids,
                                                     locked_ids, included_ids, fav_seq,
                                                     courses_df))
            /\ best_worker' = Len(workers) + 1
            /\ UNCHANGED <<best_files, history_selected_file>>
    /\ UNCHANGED <<queue, tableVars, sessionVars, liveVars, saveVars, selVars, favVars, diskVars, edits>>

(* _cancel_best_schedule, lines 2453-2460. *)
cancel_best_schedule ==
    /\ best_token < MaxToken
    /\ IF best_worker # NoWorker THEN cancel(best_worker) ELSE UNCHANGED workers
    /\ best_token' = best_token + 1
    /\ close_history_panel
    /\ UNCHANGED <<best_worker, best_progress>>

(* on_use_selected_history, lines 2621-2669: a click on btn_use_history,   *)
(* which is on the panel.  It interrupts a run; with a file selected it    *)
(* writes the sets on display to the session file and closes the panel.    *)
on_use_selected_history ==
    /\ history_mode # "none"
    /\ IF history_mode = "best" /\ best_running
       THEN cancel_best_schedule /\ UNCHANGED <<sessionVars, liveVars, saveVars, selVars>>
       ELSE IF ~history_selected_file.present
       THEN UNCHANGED <<workers, panelVars, sessionVars, liveVars, saveVars, selVars>>
       ELSE /\ session_file' = save_user_file(favorites_ids, included_ids, locked_ids,
                                              fav_seq)
            /\ readonly_mode' = FALSE
            /\ close_history_panel
            /\ UNCHANGED <<workers, best_worker, best_token, best_progress, user_files>>
    /\ UNCHANGED <<queue, tableVars, liveVars, saveVars, selVars, favVars, diskVars, edits>>

(* _replace_sets, lines 1401-1432, with a seq that covers fav. *)
replace_sets(fav, inc, lock, seq) ==
    /\ favorites_ids' = fav
    /\ locked_ids' = lock \cap fav
    /\ included_ids' = (inc \cap fav) \cup (lock \cap fav)
    /\ fav_seq' = [c \in fav |-> seq[c]]
    /\ fav_seq_next' = IF fav = {} THEN 1 ELSE Max({seq[c] : c \in fav}) + 1

(* on_back_to_session, lines 2610-2619: a click on btn_back_session, which *)
(* is enabled on the panel when no run is in progress.                     *)
on_back_to_session ==
    /\ history_mode # "none"
    /\ ~best_running
    /\ IF session_backup.present
       THEN replace_sets(session_backup.favorites, session_backup.included,
                         session_backup.locked, session_backup.seq)
       ELSE UNCHANGED favVars
    /\ close_history_panel
    /\ readonly_mode' = FALSE
    /\ UNCHANGED <<workers, queue, tableVars, liveVars, saveVars, selVars, session_file, user_files, best_worker,
                   best_token, best_progress, diskVars, edits>>

(* _on_best_schedule_finished without the token test of lines 2517-2518. *)
on_best_schedule_finished_any_token(m) ==
    /\ best_worker' = NoWorker
    /\ IF m.cancelled \/ ~m.ok \/ m.files = <<>>
       THEN close_history_panel
       ELSE /\ best_files' = m.files
            /\ enter_best_schedule_results
    /\ UNCHANGED <<best_token, best_progress>>

(* _on_best_schedule_finished, lines 2516-2537. *)
on_best_schedule_finished(m) ==
    IF m.token # best_token
    THEN UNCHANGED panelVars
    ELSE /\ best_worker' = NoWorker
         /\ IF m.cancelled \/ ~m.ok \/ m.files = <<>>
            THEN close_history_panel
            ELSE /\ best_files' = m.files
                 /\ enter_best_schedule_results
         /\ UNCHANGED <<best_token, best_progress>>

(* _on_best_schedule_progress, lines 2539-2548. *)
on_best_schedule_progress(m) ==
    IF m.token # best_token \/ ~best_running
    THEN UNCHANGED panelVars
    ELSE /\ best_progress' = (IF m.value < 0 THEN 0 ELSE IF m.value > 100 THEN 100
                              ELSE m.value)
         /\ UNCHANGED <<session_backup, best_worker, best_running, best_token, best_files,
                        history_mode, btn_best_schedule, history_selected_file>>

(* The event loop delivers the oldest queued signal to its slot. *)
DeliverFinished ==
    /\ queue # <<>>
    /\ Head(queue).kind = "finished"
    /\ on_best_schedule_finished(Head(queue))
    /\ queue' = Tail(queue)
    /\ UNCHANGED <<workers, tableVars, sessionVars, liveVars, saveVars, selVars, favVars, diskVars, edits>>

DeliverProgress ==
    /\ queue # <<>>
    /\ Head(queue).kind = "progress"
    /\ on_best_schedule_progress(Head(queue))
    /\ queue' = Tail(queue)
    /\ UNCHANGED <<workers, tableVars, sessionVars, liveVars, saveVars, selVars, favVars, diskVars, edits>>

(* The loaded table: course 1 on SlotA, course 2 on SlotB with 2 credits,  *)
(* the others on SlotC.                                                    *)
session_table ==
    [c \in Courses |-> course_row(IF c = 2 THEN 2 ELSE 1,
                                  IF c = 1 THEN {SlotA} ELSE IF c = 2 THEN {SlotB}
                                  ELSE {SlotC})]

(* After construction and on_login with a session file that holds the      *)
(* favorites 1 and 2, both shown in the timetable, course 1 locked or not. *)
Init ==
    /\ courses_df = session_table
    /\ favorites_ids = {1, 2}
    /\ included_ids = {1, 2}
    /\ locked_ids \in {{}, {1}}
    /\ fav_seq = [c \in {1, 2} |-> c]
    /\ fav_seq_next = 3
    /\ session_backup = NoBackup
    /\ workers = <<>>
    /\ queue = <<>>
    /\ best_worker = NoWorker
    /\ best_running = FALSE
    /\ best_token = 0
    /\ best_files = <<>>
    /\ history_mode = "none"
    /\ best_progress = 0
    /\ btn_best_schedule = TRUE
    /\ best_cache = NoCache
    /\ best_dir = {}
    /\ edits = 0
    /\ layout = NoLayout
    /\ readonly_mode = FALSE
    /\ history_selected_file = NoFile
    /\ session_file = save_user_file(favorites_ids, included_ids, locked_ids, fav_seq)
    /\ user_files = {}
    /\ live_session = NoBackup
    /\ username = 1
    /\ session_file_path = <<1, 1>>
    /\ save = NoSave
    /\ save_workers = <<>>
    /\ login_files = <<>>
    /\ sel_lo = {}
    /\ sel_hi = {}
    /\ show_saturday = FALSE
    /\ tt_drag = NoDrag

Next ==
    \/ on_start_best_schedule
    \/ on_use_selected_history
    \/ on_back_to_session
    \/ DeliverFinished
    \/ DeliverProgress
    \/ \E i \in DOMAIN workers : WorkerStep(i)

Spec == Init /\ [][Next]_vars


(***************************************************************************)
(* SpecEdit: one run, with the user editing the favorites while it is in   *)
(* progress (readonly_mode is False during a run).  At most MaxEdits edits *)
(* are made.                                                               *)
(***************************************************************************)
(* lines 2153-2174 of on_result_favorite_toggled: the sets *)
result_favorite_toggled_sets(cid, checked) ==
    IF readonly_mode
    THEN UNCHANGED favVars
    ELSE IF checked
    THEN /\ favorites_ids' = favorites_ids \cup {cid}
         /\ locked_ids' = locked_ids \ {cid}
         /\ included_ids' = (included_ids \cup {cid}) \cup (locked_ids \ {cid})
         /\ IF cid \in DOMAIN fav_seq
            THEN UNCHANGED <<fav_seq, fav_seq_next>>
            ELSE /\ fav_seq' = [c \in DOMAIN fav_seq \cup {cid} |->
                                   IF c = cid THEN fav_seq_next ELSE fav_seq[c]]
                 /\ fav_seq_next' = fav_seq_next + 1
    ELSE IF cid \in locked_ids
    THEN UNCHANGED favVars
    ELSE /\ favorites_ids' = favorites_ids \ {cid}
         /\ locked_ids' = locked_ids
         /\ included_ids' = (included_ids \ {cid}) \cup locked_ids
         /\ fav_seq' = [c \in DOMAIN fav_seq \ {cid} |-> fav_seq[c]]
         /\ fav_seq_next' = IF DOMAIN fav_seq \ {cid} = {} THEN 1
                            ELSE Max({fav_seq[c] : c \in DOMAIN fav_seq \ {cid}}) + 1

(* on_result_favorite_toggled, lines 2148-2190: the star of a result row. *)
on_result_favorite_toggled(cid, checked) ==
    /\ result_favorite_toggled_sets(cid, checked)
    /\ UNCHANGED <<workers, queue, tableVars, sessionVars, liveVars, saveVars, selVars, panelVars, diskVars>>

(* on_fav_cell_changed, lines 1929-1974, for the check box of column col   *)
(* ("schedule" or "lock") in the row of favorite cid.                      *)
on_fav_cell_changed(cid, col) ==
    /\ cid \in favorites_ids
    /\ IF readonly_mode
       THEN UNCHANGED <<included_ids, locked_ids>>
       ELSE IF col = "schedule"
       THEN IF cid \in locked_ids
            THEN UNCHANGED <<included_ids, locked_ids>>
            ELSE /\ included_ids' = (IF cid \in included_ids THEN included_ids \ {cid}
                                     ELSE included_ids \cup {cid}) \cup locked_ids
                 /\ UNCHANGED locked_ids
       ELSE IF cid \notin locked_ids
            THEN /\ locked_ids' = locked_ids \cup {cid}
                 /\ included_ids' = included_ids \cup {cid} \cup locked_ids
            ELSE /\ locked_ids' = locked_ids \ {cid}
                 /\ included_ids' = included_ids \cup (locked_ids \ {cid})
    /\ UNCHANGED <<favorites_ids, fav_seq, fav_seq_next>>
    /\ UNCHANGED <<workers, queue, tableVars, sessionVars, liveVars, saveVars, selVars, panelVars, diskVars>>

(* One of at most MaxEdits edits. *)
Edit(A) == edits < MaxEdits /\ edits' = edits + 1 /\ A

EditProfiles ==
    {Profile(TRUE, FALSE, TRUE, 1, {SlotA}), Profile(TRUE, FALSE, TRUE, 1, {SlotB}),
     Profile(TRUE, TRUE, TRUE, 1, {SlotA})}

InitEdit == \E prof \in [Courses -> EditProfiles], seq \in Orders : StartedWith(prof, seq)

NextEdit ==
    \/ WorkerStep(1)
    \/ \E cid \in Courses : Edit(on_result_favorite_toggled(cid, cid \notin favorites_ids))
    \/ \E cid \in Courses, col \in {"schedule", "lock"} : Edit(on_fav_cell_changed(cid, col))

SpecEdit == InitEdit /\ [][NextEdit]_vars

(***************************************************************************)
(* Runs and the window.                                                    *)
(***************************************************************************)
Executing(i) ==
    workers[i].pc \in {"left", "right", "cross", "computed", "write", "written", "emit",
                       "except"}

(* C7: no two workers are executing (computing or writing result files)    *)
(* at the same time.                                                       *)
C7_OneWorkerExecuting ==
    \A i, j \in DOMAIN workers : i # j => ~(Executing(i) /\ Executing(j))

StaleDelivery ==
    /\ queue # <<>>
    /\ queue' = Tail(queue)
    /\ Head(queue).token # best_token

TokensIncrease ==
    /\ \A i, j \in DOMAIN workers : i < j => workers[i].token < workers[j].token
    /\ \A i \in DOMAIN workers : workers[i].token <= best_token

(* C8: the tokens of the workers strictly increase in the order of their   *)
(* creation, and the delivery of a finished or progress signal whose token *)
(* is not the window's current token leaves the running flag, the file     *)
(* list, the panel mode and the progress value unchanged.                  *)
C8_TokensIncreaseStaleDiscarded ==
    /\ []TokensIncrease
    /\ [][StaleDelivery => UNCHANGED <<best_running, best_files, history_mode,
                                       best_progress>>]_vars

C8_Witness ==
    /\ Len(workers) = 2
    /\ workers[1].cancel_requested
    /\ workers[1].pc = "done"
    /\ \A k \in 1..Len(queue) : queue[k].token # workers[1].token
    /\ best_running
    /\ best_token = workers[2].token
    /\ best_progress > 0

(* The collections the window had when the worker was constructed. *)
constructed_with(i) ==
    [favorites |-> workers[i].favorites, locked_ids |-> workers[i].locked_ids,
     included_ids |-> workers[i].included_ids, fav_seq |-> workers[i].fav_seq,
     courses_df |-> workers[i].courses_df]

(* C9: whatever the user edits while the run is in progress, the results   *)
(* the run computes are those of the search on the collections the window  *)
(* had when the worker was constructed.                                    *)
C9_ResultsOfConstructionInputs ==
    workers[1].pc \in {"computed", "write", "written", "emit", "done"} =>
        workers[1].results = compute_best_combinations(constructed_with(1))

C9_Witness ==
    /\ workers[1].pc = "computed"
    /\ edits >= 1
    /\ workers[1].results # <<>>
    /\ favorites_ids # workers[1].favorites
    /\ compute_best_combinations(worker_inputs_live(1)) # workers[1].results


(***************************************************************************)
(* The timetable layout (app_timetable_logic.py).  layout holds the locals *)
(* of one call of build_timetable_matrix_per_day_lanes_sorted(courses_df,  *)
(* sorted(included_ids), locked_ids, show_days):                           *)
(*   called     entered, before line 104                                   *)
(*   lanes      in the loop of build_lane_assignment_sorted, before row idx*)
(*   day_lanes  build_lane_assignment_sorted has returned (before line 105)*)
(*   grid       the loop of lines 113-120 has ended (before line 122)      *)
(*   returned   the six results were returned (line 180)                   *)
(*   raised     an exception left the function                             *)
(* An int used as a set of lanes (used_by_slot, used) is the set of the    *)
(* lanes whose bit is set.  A label is modelled by the id of its course    *)
(* (_tt_label ends with the formatted id), a cell of matrix by the list of *)
(* the labels joined in it, None in id_matrix by NoCourse.                 *)
(***************************************************************************)
NoCourse == 0

(* The columns asked for at line 110 and the names bound at line 113. *)
MetaColumns == 4
MetaNames == 3

(* _subset_courses_by_ids: the rows whose _cid is in ids, in table order   *)
(* (the table is held in ascending id order).                              *)
subset_courses_by_ids(df, ids) == SortedSeqOfSet(DOMAIN df \cap ids)

(* dict.get(key, default) *)
DictGet(d, key, default) == IF key \in DOMAIN d THEN d[key] ELSE default

(* rows.sort(key=lambda x: (-len(x[1]), int(x[0]))), line 62 *)
lane_rows(df, ids) ==
    StableSort(subset_courses_by_ids(df, ids),
               LAMBDA c : <<0 - Cardinality(df[c].slots), c>>)

(* lines 75-78 with lane 1 for every course *)
lowest_free_lane_always_first(used) == 1

(* lines 75-78 with the lane above the highest used one *)
lowest_free_lane_above_highest(used) == Max(used \cup {0}) + 1

(* lines 75-78: the position of the lowest unset bit of used *)
lowest_free_lane(used) ==
    LET bitlen == Max(used \cup {0}) + 2
    IN  Min({l \in 1..bitlen : l \notin used})

(* lines 64-82 without lines 84-86: the lane is not recorded at the slots *)
lane_step_without_marking(st, cid, slots_set) ==
    IF slots_set = {}
    THEN [st EXCEPT !.lane_of = (cid :> 1) @@ @]
    ELSE LET used == UNION {DictGet(st.used_by_slot, sl, {}) : sl \in slots_set}
             lane == lowest_free_lane(used)
         IN  [st EXCEPT !.lane_of = (cid :> lane) @@ @,
                        !.max_lane = IF lane > @ THEN lane ELSE @]

(* lines 64-86: one pass of the loop of build_lane_assignment_sorted *)
lane_step(st, cid, slots_set) ==
    IF slots_set = {}
    THEN [st EXCEPT !.lane_of = (cid :> 1) @@ @]
    ELSE LET used == UNION {DictGet(st.used_by_slot, sl, {}) : sl \in slots_set}
             lane == lowest_free_lane(used)
         IN  [st EXCEPT !.lane_of = (cid :> lane) @@ @,
                        !.max_lane = IF lane > @ THEN lane ELSE @,
                        !.used_by_slot =
                            [sl \in DOMAIN @ \cup slots_set |->
                                IF sl \in slots_set
                                THEN DictGet(st.used_by_slot, sl, {}) \cup {lane}
                                ELSE @[sl]]]

(* lines 114-120: the rows of subset_meta raise day_lanes of their days *)
RECURSIVE day_lanes_rows(_, _, _, _)
day_lanes_rows(day_lanes, rows, df, lane_map) ==
    IF rows = <<>> THEN day_lanes
    ELSE LET lane == DictGet(lane_map, Head(rows), 1)
             slots_set == df[Head(rows)].slots
             raised == [d \in DOMAIN day_lanes |->
                           IF lane > day_lanes[d] /\ \E sl \in slots_set : sl[1] = d
                           THEN lane ELSE day_lanes[d]]
         IN  day_lanes_rows(raised, Tail(rows), df, lane_map)

(* lines 122-129 *)
day_offset_of(show_days, day_lanes) ==
    [d \in SeqToSet(show_days) |->
        SumSeq([k \in 1..(CHOOSE j \in 1..Len(show_days) : show_days[j] = d) - 1 |->
                   day_lanes[show_days[k]]])]

col_day_idx_of(show_days, day_lanes) ==
    LET total == SumSeq([k \in 1..Len(show_days) |-> day_lanes[show_days[k]]])
    IN  [c \in 1..total |->
            (CHOOSE j \in 1..Len(show_days) :
                 /\ day_offset_of(show_days, day_lanes)[show_days[j]] < c
                 /\ c <= day_offset_of(show_days, day_lanes)[show_days[j]]
                             + day_lanes[show_days[j]]) - 1]

(* lines 153-172: one slot of a course is written into its cell *)
write_slot(g, cid, slot, lane, is_locked, day_offset) ==
    IF slot[1] \notin DOMAIN day_offset \/ slot[2] \notin PERIOD_INDEX THEN g
    ELSE LET cell == <<slot[2], day_offset[slot[1]] + (lane - 1)>>
         IN  IF g.matrix[cell] # <<>> /\ cid \notin SeqToSet(g.matrix[cell])
             THEN [g EXCEPT !.conflict_slots = Append(@, slot),
                            !.matrix[cell] = Append(@, cid),
                            !.locked_matrix[cell] = @ \/ is_locked]
             ELSE [g EXCEPT !.matrix[cell] = <<cid>>,
                            !.id_matrix[cell] = IF @ = NoCourse THEN cid ELSE @,
                            !.locked_matrix[cell] = @ \/ is_locked]

RECURSIVE write_slots(_, _, _, _, _, _)
write_slots(g, cid, slots_set, lane, is_locked, day_offset) ==
    IF slots_set = {} THEN g
    ELSE LET slot == CHOOSE sl \in slots_set :
                         \A o \in slots_set : ~LexLess(o, sl)
         IN  write_slots(write_slot(g, cid, slot, lane, is_locked, day_offset),
                         cid, slots_set \ {slot}, lane, is_locked, day_offset)

(* lines 139-172: the rows of subset_meta are written into the grid *)
RECURSIVE write_rows(_, _, _, _, _, _)
write_rows(g, rows, df, lane_map, locked, day_offset) ==
    IF rows = <<>> THEN g
    ELSE write_rows(write_slots(g, Head(rows), df[Head(rows)].slots,
                                DictGet(lane_map, Head(rows), 1),
                                Head(rows) \in locked, day_offset),
                    Tail(rows), df, lane_map, locked, day_offset)

(* lines 173-178: conflict_slots without repetitions, first occurrences kept *)
RECURSIVE uniq_of(_)
uniq_of(xs) ==
    IF xs = <<>> THEN <<>>
    ELSE LET front == uniq_of(SubSeq(xs, 1, Len(xs) - 1))
         IN  IF xs[Len(xs)] \in SeqToSet(front) THEN front ELSE Append(front, xs[Len(xs)])

(* lines 131-134: the empty grids of PERIODS rows and cols columns *)
empty_grid(cols) ==
    [matrix |-> [cell \in PERIOD_INDEX \X (0..(cols - 1)) |-> <<>>],
     id_matrix |-> [cell \in PERIOD_INDEX \X (0..(cols - 1)) |-> NoCourse],
     locked_matrix |-> [cell \in PERIOD_INDEX \X (0..(cols - 1)) |-> FALSE],
     conflict_slots |-> <<>>]

(* lines 104 and 51-62: build_lane_assignment_sorted is entered *)
BeginLanes ==
    /\ layout.pc = "called"
    /\ IF included_ids = {} \/ subset_courses_by_ids(courses_df, included_ids) = <<>>
       THEN layout' = [layout EXCEPT !.pc = "day_lanes"]
       ELSE layout' = [layout EXCEPT !.pc = "lanes", !.idx = 1,
                                     !.rows = lane_rows(courses_df, included_ids)]
    /\ UNCHANGED <<workers, queue, courses_df, sessionVars, liveVars, saveVars, selVars, favVars, panelVars, edits, diskVars>>

LaneStep ==
    /\ layout.pc = "lanes"
    /\ layout.idx <= Len(layout.rows)
    /\ layout' = [lane_step(layout, layout.rows[layout.idx],
                            courses_df[layout.rows[layout.idx]].slots)
                     EXCEPT !.idx = @ + 1]
    /\ UNCHANGED <<workers, queue, courses_df, sessionVars, liveVars, saveVars, selVars, favVars, panelVars, edits, diskVars>>

(* line 88: return lane_of, max_lane *)
LanesDone ==
    /\ layout.pc = "lanes"
    /\ layout.idx > Len(layout.rows)
    /\ layout' = [layout EXCEPT !.pc = "day_lanes"]
    /\ UNCHANGED <<workers, queue, courses_df, sessionVars, liveVars, saveVars, selVars, favVars, panelVars, edits, diskVars>>

(* lines 105-120.  Each row of subset_meta is a tuple of the MetaColumns   *)
(* columns of line 110; line 113 binds it to MetaNames names, which raises *)
(* ValueError for the first row when the two numbers differ.               *)
DayLanes ==
    /\ layout.pc = "day_lanes"
    /\ LET subset_meta == subset_courses_by_ids(courses_df, included_ids)
           ones == [d \in SeqToSet(layout.show_days) |-> 1]
       IN  IF subset_meta # <<>> /\ MetaColumns # MetaNames
           THEN layout' = [layout EXCEPT !.pc = "raised", !.day_lanes = ones]
           ELSE layout' = [layout EXCEPT
                               !.pc = "grid",
                               !.day_lanes = day_lanes_rows(ones, subset_meta, courses_df,
                                                            layout.lane_of)]
    /\ UNCHANGED <<workers, queue, courses_df, sessionVars, liveVars, saveVars, selVars, favVars, panelVars, edits, diskVars>>

(* lines 122-180 *)
BuildGrid ==
    /\ layout.pc = "grid"
    /\ LET subset_meta == subset_courses_by_ids(courses_df, included_ids)
           day_offset == day_offset_of(layout.show_days, layout.day_lanes)
           col_day_idx == col_day_idx_of(layout.show_days, layout.day_lanes)
           g == write_rows(empty_grid(Len(col_day_idx)), subset_meta, courses_df,
                           layout.lane_of, locked_ids, day_offset)
       IN  layout' = [layout EXCEPT !.pc = "returned",
                                    !.col_day_idx = col_day_idx,
                                    !.matrix = g.matrix,
                                    !.id_matrix = g.id_matrix,
                                    !.locked_matrix = g.locked_matrix,
                                    !.conflict_slots = uniq_of(g.conflict_slots)]
    /\ UNCHANGED <<workers, queue, courses_df, sessionVars, liveVars, saveVars, selVars, favVars, panelVars, edits, diskVars>>

(***************************************************************************)
(* SpecLayout: one call of the layout on a loaded table.  A course of the  *)
(* table has no time, one or two slots (Monday and Tuesday period 3,       *)
(* Monday period 4, Saturday period 3) or a slot whose period is not in    *)
(* PERIODS (parse_time_text keeps any digit character as the period of a   *)
(* single-period entry).  A favorite may have no row in the table.         *)
(***************************************************************************)
SlotD == <<0, 4>>
SlotSat == <<5, 3>>
SlotBadPeriod == <<0, 15>>

LayoutSlotSets ==
    {{}, {SlotA}, {SlotC}, {SlotA, SlotC}, {SlotA, SlotD}, {SlotSat},
     {SlotA, SlotBadPeriod}}

(* _calc_show_days: Monday to Friday, with Saturday when show_saturday *)
ShowDays == {<<0, 1, 2, 3, 4>>, <<0, 1, 2, 3, 4, 5>>}

InitLayout ==
    \E rows \in SUBSET Courses, sl \in [Courses -> LayoutSlotSets],
       inc \in SUBSET Courses, lock \in {{}, {1}}, days \in ShowDays :
        /\ lock \subseteq inc
        /\ courses_df = [c \in rows |-> course_row(1, sl[c])]
        /\ \A c \in Courses \ rows : sl[c] = {}
        /\ favorites_ids = Courses
        /\ included_ids = inc
        /\ locked_ids = lock
        /\ fav_seq = [c \in Courses |-> c]
        /\ fav_seq_next = NumCourses + 1
        /\ session_backup = NoBackup
        /\ workers = <<>>
        /\ queue = <<>>
        /\ best_worker = NoWorker
        /\ best_running = FALSE
        /\ best_token = 0
        /\ best_files = <<>>
        /\ history_mode = "none"
        /\ best_progress = 0
        /\ btn_best_schedule = TRUE
        /\ best_cache = NoCache
        /\ best_dir = {}
        /\ edits = 0
        /\ layout = [NoLayout EXCEPT !.pc = "called", !.show_days = days]
        /\ readonly_mode = FALSE
        /\ history_selected_file = NoFile
        /\ session_file = save_user_file(favorites_ids, included_ids, locked_ids, fav_seq)
        /\ user_files = {}
        /\ live_session = NoBackup
        /\ username = 1
        /\ session_file_path = <<1, 1>>
        /\ save = NoSave
        /\ save_workers = <<>>
        /\ login_files = <<>>
        /\ sel_lo = {}
        /\ sel_hi = {}
        /\ show_saturday = FALSE
        /\ tt_drag = NoDrag

NextLayout == BeginLanes \/ LaneStep \/ LanesDone \/ DayLanes \/ BuildGrid

SpecLayout == InitLayout /\ [][NextLayout]_vars


(***************************************************************************)
(* Properties of the layout (SpecLayout).                                  *)
(***************************************************************************)
SharesSlot(a, b) == courses_df[a].slots \cap courses_df[b].slots # {}

discard_favorites(S) ==
    /\ favorites_ids' = favorites_ids \ S
    /\ locked_ids' = locked_ids \ S
    /\ included_ids' = (included_ids \ S) \cup (locked_ids \ S)
    /\ fav_seq' = [c \in DOMAIN fav_seq \ S |-> fav_seq[c]]
    /\ fav_seq_next' = IF DOMAIN fav_seq \ S = {} THEN 1
                       ELSE Max({fav_seq[c] : c \in DOMAIN fav_seq \ S}) + 1

(* on_delete_favorite_button_clicked without the test of line 1908 *)
on_delete_favorite_button_clicked_locked_too(cid) ==
    /\ cid \in favorites_ids
    /\ IF readonly_mode THEN UNCHANGED favVars ELSE discard_favorites({cid})
    /\ UNCHANGED <<workers, queue, tableVars, sessionVars, liveVars, saveVars, selVars, panelVars, diskVars>>

(* on_delete_favorite_button_clicked, lines 1897-1927: the button in the   *)
(* row of favorite cid.                                                    *)
on_delete_favorite_button_clicked(cid) ==
    /\ cid \in favorites_ids
    /\ IF readonly_mode \/ cid \in locked_ids
       THEN UNCHANGED favVars
       ELSE discard_favorites({cid})
    /\ UNCHANGED <<workers, queue, tableVars, sessionVars, liveVars, saveVars, selVars, panelVars, diskVars>>

(* _on_fav_drag_selection_finished without the lines that add a locked     *)
(* course to included_ids (line 2007).                                     *)
on_fav_drag_selection_finished_lock_only(column, rows, is_checked) ==
    /\ rows # {}
    /\ rows \subseteq favorites_ids
    /\ IF readonly_mode
       THEN UNCHANGED <<included_ids, locked_ids>>
       ELSE IF column = "schedule"
       THEN /\ included_ids' = (IF is_checked THEN included_ids \cup rows
                                ELSE included_ids \ (rows \ locked_ids))
            /\ UNCHANGED locked_ids
       ELSE /\ locked_ids' = (IF is_checked THEN locked_ids \cup rows ELSE locked_ids \ rows)
            /\ UNCHANGED included_ids
    /\ UNCHANGED <<favorites_ids, fav_seq, fav_seq_next>>
    /\ UNCHANGED <<workers, queue, tableVars, sessionVars, liveVars, saveVars, selVars, panelVars, diskVars>>

(* _on_fav_drag_selection_finished, lines 1976-2023: the check boxes of    *)
(* column ("schedule" or "lock") in the rows of the favorites rows were    *)
(* set to is_checked by one drag.                                          *)
on_fav_drag_selection_finished(column, rows, is_checked) ==
    /\ rows # {}
    /\ rows \subseteq favorites_ids
    /\ IF readonly_mode
       THEN UNCHANGED <<included_ids, locked_ids>>
       ELSE LET lock == IF column = "lock"
                        THEN (IF is_checked THEN locked_ids \cup rows ELSE locked_ids \ rows)
                        ELSE locked_ids
                inc == IF column = "schedule"
                       THEN (IF is_checked THEN included_ids \cup rows
                             ELSE included_ids \ (rows \ locked_ids))
                       ELSE (IF is_checked THEN included_ids \cup rows ELSE included_ids)
            IN  /\ locked_ids' = lock
                /\ included_ids' = inc \cup lock
    /\ UNCHANGED <<favorites_ids, fav_seq, fav_seq_next>>
    /\ UNCHANGED <<workers, queue, tableVars, sessionVars, liveVars, saveVars, selVars, panelVars, diskVars>>

(* on_clear_out_of_schedule_favorites, lines 2082-2115, confirmed *)
on_clear_out_of_schedule_favorites ==
    /\ LET missing == {c \in favorites_ids : c \notin included_ids /\ c \notin locked_ids}
       IN  IF readonly_mode \/ missing = {}
           THEN UNCHANGED favVars
           ELSE discard_favorites(missing)
    /\ UNCHANGED <<workers, queue, tableVars, sessionVars, liveVars, saveVars, selVars, panelVars, diskVars>>

(* on_clear_favorites, lines 2117-2146, confirmed *)
on_clear_favorites ==
    /\ IF readonly_mode \/ favorites_ids = {} \/ locked_ids # {}
       THEN UNCHANGED favVars
       ELSE /\ favorites_ids' = {}
            /\ included_ids' = {}
            /\ locked_ids' = {}
            /\ fav_seq' = <<>>
            /\ fav_seq_next' = 1
    /\ UNCHANGED <<workers, queue, tableVars, sessionVars, liveVars, saveVars, selVars, panelVars, diskVars>>

(* _favorite_order_list, lines 1807-1814 *)
favorite_order_list ==
    StableSort(SortedSeqOfSet(favorites_ids),
               LAMBDA c : <<DictGet(fav_seq, c, MissingRank), c>>)

(* FavoritesTableWidget._reordered_sequence (app_widgets.py, 163-204): row *)
(* src of order is dropped at insert index dest                            *)
reordered_sequence(order, src, dest) ==
    LET without == SubSeq(order, 1, src - 1) \o SubSeq(order, src + 1, Len(order))
        at == IF dest > src - 1 THEN dest - 1 ELSE dest
    IN  IF dest = src - 1 THEN order
        ELSE SubSeq(without, 1, at) \o <<order[src]>> \o SubSeq(without, at + 1, Len(without))

(* ranks 1, 2, ... for the ids of a list, the other ranks kept *)
ranks_of(order) ==
    [c \in DOMAIN fav_seq \cup SeqToSet(order) |->
        IF c \in SeqToSet(order) THEN CHOOSE k \in 1..Len(order) : order[k] = c
        ELSE fav_seq[c]]

(* _on_favorites_reordered without the ranks of lines 2055-2058: only the  *)
(* moved row takes the rank of its new place.                              *)
on_favorites_reordered_moved_row_only(src, dest) ==
    /\ ~readonly_mode
    /\ src \in 1..Len(favorite_order_list)
    /\ dest \in 0..Len(favorite_order_list)
    /\ LET new_order == reordered_sequence(favorite_order_list, src, dest)
           cid == favorite_order_list[src]
       IN  IF new_order = favorite_order_list
           THEN UNCHANGED favVars
           ELSE /\ fav_seq' = [fav_seq EXCEPT
                                  ![cid] = CHOOSE k \in 1..Len(new_order) : new_order[k] = cid]
                /\ fav_seq_next' = Len(new_order) + 1
                /\ included_ids' = included_ids \cup locked_ids
                /\ UNCHANGED <<favorites_ids, locked_ids>>
    /\ UNCHANGED <<workers, queue, tableVars, sessionVars, liveVars, saveVars, selVars, panelVars, diskVars>>

(* _on_favorites_reordered, lines 2026-2072: a row of the favorites table  *)
(* (shown in rank order, the only order in which rows can be dragged) was  *)
(* dropped at another place.                                               *)
on_favorites_reordered(src, dest) ==
    /\ ~readonly_mode
    /\ src \in 1..Len(favorite_order_list)
    /\ dest \in 0..Len(favorite_order_list)
    /\ LET new_order == reordered_sequence(favorite_order_list, src, dest)
       IN  IF new_order = favorite_order_list
           THEN UNCHANGED favVars
           ELSE /\ fav_seq' = ranks_of(new_order)
                /\ fav_seq_next' = Len(new_order) + 1
                /\ included_ids' = included_ids \cup locked_ids
                /\ UNCHANGED <<favorites_ids, locked_ids>>
    /\ UNCHANGED <<workers, queue, tableVars, sessionVars, liveVars, saveVars, selVars, panelVars, diskVars>>

(* _move_favorite, lines 1816-1842, direction -1 or 1 *)
move_favorite(cid, direction) ==
    /\ cid \in favorites_ids
    /\ LET order == favorite_order_list
           idx == CHOOSE k \in 1..Len(order) : order[k] = cid
           target == idx + direction
       IN  IF target < 1 \/ target > Len(order)
           THEN UNCHANGED favVars
           ELSE /\ fav_seq' = ranks_of([order EXCEPT ![idx] = order[target],
                                                     ![target] = order[idx]])
                /\ fav_seq_next' = Len(order) + 1
                /\ included_ids' = included_ids \cup locked_ids
                /\ UNCHANGED <<favorites_ids, locked_ids>>
    /\ UNCHANGED <<workers, queue, tableVars, sessionVars, liveVars, saveVars, selVars, panelVars, diskVars>>

(* _replace_sets, lines 1401-1432, for the four values of load_user_file *)
replace_sets_from(loaded) == replace_sets(loaded.fav, loaded.inc, loaded.lock, loaded.seq)

(* on_login, lines 1440-1509.  history[0] is the file with the greatest     *)
(* name, the session file of the login before; a new session file is       *)
(* written with the sets taken from it.                                    *)
on_login ==
    /\ session_file.present
    /\ replace_sets_from(load_user_file(session_file))
    /\ session_file' = save_user_file(favorites_ids', included_ids', locked_ids', fav_seq')
    /\ user_files' = user_files \cup {session_file}
    /\ session_backup' = NoBackup
    /\ history_selected_file' = NoFile
    /\ readonly_mode' = FALSE
    /\ UNCHANGED <<workers, queue, tableVars, liveVars, saveVars, selVars, best_worker, best_running, best_token,
                   best_files, history_mode, best_progress, btn_best_schedule, diskVars>>

(* schedule_autosave, _autosave_now and SaveWorker.run (lines 2192-2248,   *)
(* app_workers.py 15-55): the sets are written to the session file.        *)
autosave ==
    /\ ~readonly_mode
    /\ session_file.present
    /\ session_file' = save_user_file(favorites_ids, included_ids \cup locked_ids,
                                      locked_ids, fav_seq)
    /\ included_ids' = included_ids \cup locked_ids
    /\ UNCHANGED <<favorites_ids, locked_ids, fav_seq, fav_seq_next>>
    /\ UNCHANGED <<workers, queue, tableVars, liveVars, saveVars, selVars, readonly_mode, user_files, panelVars,
                   diskVars>>

(* on_toggle_history, lines 2550-2562: a click on btn_history, with        *)
(* _enter_history_panel, lines 2382-2398.                                  *)
on_toggle_history ==
    /\ IF best_running \/ history_mode = "best"
       THEN UNCHANGED panelVars
       ELSE IF history_mode = "none"
       THEN /\ history_selected_file' = NoFile
            /\ history_mode' = "history"
            /\ best_running' = FALSE
            /\ best_files' = <<>>
            /\ session_backup' = capture_session_snapshot
            /\ btn_best_schedule' = FALSE
            /\ UNCHANGED <<best_worker, best_token, best_progress>>
       ELSE /\ close_history_panel
            /\ UNCHANGED <<best_worker, best_token, best_progress>>
    /\ UNCHANGED <<workers, queue, tableVars, sessionVars, liveVars, saveVars, selVars, favVars, diskVars>>

(* on_history_selected, lines 2564-2608, for a row of the history list:   *)
(* the fields it assigns                                                   *)
history_selected_state(file) ==
    /\ history_mode # "none"
    /\ ~(history_mode = "best" /\ best_running)
    /\ session_backup' = (IF session_backup.present THEN session_backup
                          ELSE capture_session_snapshot)
    /\ history_selected_file' = file
    /\ replace_sets_from(load_user_file(file))
    /\ readonly_mode' = TRUE
    /\ UNCHANGED <<workers, queue, tableVars, saveVars, selVars, session_file, user_files,
                   best_worker, best_running, best_token, best_files, history_mode,
                   best_progress, btn_best_schedule, diskVars>>

(* on_history_selected, lines 2564-2608, for a row of the history list *)
on_history_selected(file) == history_selected_state(file) /\ UNCHANGED liveVars

(***************************************************************************)
(* SpecSession: a logged-in session with the favorites 1 and 2 and a file  *)
(* of an earlier login in the user's directory.  At most MaxClicks edits   *)
(* and logins are made; the history panel is opened, read and closed at    *)
(* will.                                                                   *)
(***************************************************************************)
Click(A) == edits < MaxClicks /\ edits' = edits + 1 /\ A

Browse(A) == A /\ UNCHANGED edits

EarlierFile == save_user_file({2, 3}, {3}, {3}, (2 :> 2) @@ (3 :> 1))

InitSession ==
    /\ courses_df = session_table
    /\ favorites_ids = {1, 2}
    /\ included_ids \in {{1, 2}, {1}}
    /\ locked_ids \in {{}, {1}}
    /\ fav_seq \in {(1 :> 1) @@ (2 :> 2), (1 :> 2) @@ (2 :> 1)}
    /\ fav_seq_next = 3
    /\ session_backup = NoBackup
    /\ workers = <<>>
    /\ queue = <<>>
    /\ best_worker = NoWorker
    /\ best_running = FALSE
    /\ best_token = 0
    /\ best_files = <<>>
    /\ history_mode = "none"
    /\ best_progress = 0
    /\ btn_best_schedule = TRUE
    /\ best_cache = NoCache
    /\ best_dir = {}
    /\ edits = 0
    /\ layout = NoLayout
    /\ readonly_mode = FALSE
    /\ history_selected_file = NoFile
    /\ session_file = save_user_file(favorites_ids, included_ids, locked_ids, fav_seq)
    /\ user_files = {EarlierFile}
    /\ live_session = NoBackup
    /\ username = 1
    /\ session_file_path = <<1, 1>>
    /\ save = NoSave
    /\ save_workers = <<>>
    /\ login_files = <<>>
    /\ sel_lo = {}
    /\ sel_hi = {}
    /\ show_saturday = FALSE
    /\ tt_drag = NoDrag

ResultToggle ==
    \E cid \in Courses : Click(on_result_favorite_toggled(cid, cid \notin favorites_ids))

FavCellChanged ==
    \E cid \in Courses, col \in {"schedule", "lock"} : Click(on_fav_cell_changed(cid, col))

FavDragSelection ==
    \E column \in {"schedule", "lock"}, rows \in SUBSET Courses, is_checked \in BOOLEAN :
        Click(on_fav_drag_selection_finished(column, rows, is_checked))

DeleteFavorite == \E cid \in Courses : Click(on_delete_favorite_button_clicked(cid))

ClearOutOfSchedule == Click(on_clear_out_of_schedule_favorites)

ClearFavorites == Click(on_clear_favorites)

FavoritesReordered ==
    \E src \in 1..NumCourses, dest \in 0..NumCourses : Click(on_favorites_reordered(src, dest))

MoveFavorite == \E cid \in Courses, direction \in {-1, 1} : Click(move_favorite(cid, direction))

Login == Click(on_login)

Autosave == Browse(autosave)

ToggleHistory == Browse(on_toggle_history)

HistorySelected ==
    \E file \in user_files : history_mode = "history" /\ Browse(on_history_selected(file))

BackToSession == Browse(on_back_to_session)

UseSelectedHistory == Browse(on_use_selected_history)

NextSession ==
    \/ ResultToggle
    \/ FavCellChanged
    \/ FavDragSelection
    \/ DeleteFavorite
    \/ ClearOutOfSchedule
    \/ ClearFavorites
    \/ FavoritesReordered
    \/ MoveFavorite
    \/ Login
    \/ Autosave
    \/ ToggleHistory
    \/ HistorySelected
    \/ BackToSession
    \/ UseSelectedHistory

SpecSession == InitSession /\ [][NextSession]_vars

(***************************************************************************)
(* C12: after every user action (favorite or unfavorite from the results,  *)
(* include toggle, lock toggle, drag-select, delete, clear, reorder,       *)
(* login, history preview, back to session) every locked course is         *)
(* included and every included course is a favorite.                       *)
(***************************************************************************)
C12_LockedIncludedFavorites ==
    /\ locked_ids \subseteq included_ids
    /\ included_ids \subseteq favorites_ids

(* after MaxClicks edits the three sets are non-empty and all different *)
C12_Witness ==
    /\ edits = MaxClicks
    /\ locked_ids # {}
    /\ locked_ids # included_ids
    /\ included_ids # favorites_ids

(* the edits of a session other than an explicit uncheck of the lock of   *)
(* course c: the lock cell of c toggled, or a drag that unchecks the lock  *)
(* column over the row of c                                                *)
OtherEdit(c) ==
    \/ DeleteFavorite
    \/ ResultToggle
    \/ ClearFavorites
    \/ ClearOutOfSchedule
    \/ FavoritesReordered
    \/ MoveFavorite
    \/ \E cid \in Courses, col \in {"schedule", "lock"} :
          /\ ~(cid = c /\ col = "lock")
          /\ Click(on_fav_cell_changed(cid, col))
    \/ \E column \in {"schedule", "lock"}, rows \in SUBSET Courses, is_checked \in BOOLEAN :
          /\ ~(column = "lock" /\ ~is_checked /\ c \in rows)
          /\ Click(on_fav_drag_selection_finished(column, rows, is_checked))

C14_RanksUnique ==
    /\ favorites_ids \subseteq DOMAIN fav_seq
    /\ \A a, b \in favorites_ids : a # b => fav_seq[a] # fav_seq[b]

(* course 3 was added and then dropped on the first row *)
C14_Witness ==
    /\ edits = MaxClicks
    /\ favorites_ids = {1, 2, 3}
    /\ DOMAIN fav_seq = {1, 2, 3}
    /\ fav_seq[3] = 1

(***************************************************************************)
(* The optimizer at the edges of its inputs.  The locked base of a run is  *)
(* locked_ids of _build_candidates: the locked, included favorites with a  *)
(* row in the table (BaseRows); the optional candidates are cand           *)
(* (PoolRows).                                                             *)
(***************************************************************************)
BaseAlone == <<SortedSeqOfSet(BaseRows)>>

ResultIdLists == [k \in 1..Len(workers[1].results) |-> workers[1].results[k].ids]

NoneFits == PoolRows # {} /\ \A c \in PoolRows : RowSlots(c) \cap BaseSlots # {}

OptionalIds(k) == ResultIds(k) \ Inp.locked_ids

(***************************************************************************)
(* C20: no returned result contains an optional course whose slot mask     *)
(* intersects the union of the locked base's masks, and no two optional    *)
(* courses of one result have intersecting slot masks, whether they came   *)
(* from the same half or from different halves of the split.               *)
(***************************************************************************)
C20_OptionalCoursesFit ==
    Returned => \A k \in 1..Len(workers[1].results) :
                   /\ \A c \in OptionalIds(k) : RowSlots(c) \cap BaseSlots = {}
                   /\ PairwiseDisjoint(OptionalIds(k))

(* a result holds two optional courses with slots, one of each half,       *)
(* beside a base with a slot                                               *)
C20_Witness ==
    /\ Returned
    /\ BaseSlots # {}
    /\ \E k \in 1..Len(workers[1].results) :
          \E a \in OptionalIds(k), b \in OptionalIds(k) :
             /\ a \in HalfIds(prepare(Inp).left_items) /\ RowSlots(a) # {}
             /\ b \in HalfIds(prepare(Inp).right_items) /\ RowSlots(b) # {}

(***************************************************************************)
(* SpecMask: the course table is built from the parsed slot sets           *)
(* (_build_courses_df_from_raw, app_excel.py 142-148).  The table has the  *)
(* courses 1 and 2; course 1 has one slot, or one slot and Monday period 3 *)
(* or Friday period 10, course 2 has one slot; a slot is any of the 7 x 15 *)
(* pairs of a day of DAYS and a period of PERIODS.                         *)
(***************************************************************************)
ValidSlots == DAY_INDEX \X PERIOD_INDEX

build_courses_df_from_raw(slots_of) ==
    /\ courses_df' = [c \in DOMAIN slots_of |-> course_row(1, slots_of[c])]
    /\ UNCHANGED <<workers, queue, layout, sessionVars, liveVars, saveVars, selVars, favVars, panelVars, edits, diskVars>>

InitMask ==
    /\ courses_df = <<>>
    /\ favorites_ids = {}
    /\ included_ids = {}
    /\ locked_ids = {}
    /\ fav_seq = <<>>
    /\ fav_seq_next = 1
    /\ session_backup = NoBackup
    /\ workers = <<>>
    /\ queue = <<>>
    /\ best_worker = NoWorker
    /\ best_running = FALSE
    /\ best_token = 0
    /\ best_files = <<>>
    /\ history_mode = "none"
    /\ best_progress = 0
    /\ btn_best_schedule = TRUE
    /\ best_cache = NoCache
    /\ best_dir = {}
    /\ edits = 0
    /\ layout = NoLayout
    /\ readonly_mode = FALSE
    /\ history_selected_file = NoFile
    /\ session_file = NoFile
    /\ user_files = {}
    /\ live_session = NoBackup
    /\ username = 1
    /\ session_file_path = <<1, 1>>
    /\ save = NoSave
    /\ save_workers = <<>>
    /\ login_files = <<>>
    /\ sel_lo = {}
    /\ sel_hi = {}
    /\ show_saturday = FALSE
    /\ tt_drag = NoDrag

(* the Excel file is loaded once *)
LoadExcel ==
    /\ courses_df = <<>>
    /\ \E s \in ValidSlots, extra \in {{}, {SlotA}, {SlotB}}, t \in ValidSlots :
          build_courses_df_from_raw((1 :> ({s} \cup extra)) @@ (2 :> {t}))

NextMask == LoadExcel

SpecMask == InitMask /\ [][NextMask]_vars

(* day_index x 15 + period_index *)
BitPosition(slot) == slot[1] * 15 + slot[2]

(* the 128-bit mask of row c: (hi << 64) | lo *)
RowMask128(c) == Mask128(courses_df[c].lo, courses_df[c].hi)

(***************************************************************************)
(* C17: slot_to_mask is injective on the 7 x 15 valid (day, period) pairs: *)
(* each pair maps to exactly one bit at position day_index x 15 +          *)
(* period_index (< 105), in the low 64-bit word when the position is below *)
(* 64 and in the high word at position - 64 otherwise, so the 128-bit      *)
(* masks of two slot sets intersect exactly when the sets share a slot.    *)
(***************************************************************************)
C17_SlotMaskInjective ==
    /\ \A c \in DOMAIN courses_df :
          LET positions == {BitPosition(sl) : sl \in courses_df[c].slots}
          IN  /\ \A pos \in positions : pos < 105
              /\ Cardinality(positions) = Cardinality(courses_df[c].slots)
              /\ courses_df[c].lo = {pos \in positions : pos < 64}
              /\ courses_df[c].hi = {pos - 64 : pos \in {q \in positions : q >= 64}}
              /\ \A b \in courses_df[c].lo \cup courses_df[c].hi : b \in 0..63
    /\ \A c, d \in DOMAIN courses_df :
          (RowMask128(c) \cap RowMask128(d) # {})
              <=> (courses_df[c].slots \cap courses_df[d].slots # {})

(* two rows share a slot of the high word, and row 1 has a slot of the low *)
(* word that row 2 has not                                                 *)
C17_Witness ==
    /\ DOMAIN courses_df = {1, 2}
    /\ courses_df[1].hi \cap courses_df[2].hi # {}
    /\ courses_df[1].lo # {}
    /\ courses_df[2].lo = {}

(***************************************************************************)
(* What a call of the layout reports (SpecLayout).  The call has ended     *)
(* when it returned its six values (line 180) or raised.                   *)
(***************************************************************************)
LayoutEnded == layout.pc \in {"returned", "raised"}

IncludedRows == DOMAIN courses_df \cap included_ids

(* the number of included courses that occupy slot sl *)
ConcurrentAt(sl) == Cardinality({c \in IncludedRows : sl \in courses_df[c].slots})

(* the greatest number of included courses on one slot of day d, 1 when no *)
(* included course has a slot that day                                     *)
MaxConcurrent(d) ==
    Max({1} \cup {ConcurrentAt(sl) :
                     sl \in {x \in UNION {courses_df[c].slots : c \in IncludedRows} : x[1] = d}})

(***************************************************************************)
(* C18: the per-day lane count reported by the layout equals the maximum   *)
(* number of included courses that occupy one same slot on that day, and 1 *)
(* when no courses overlap on that day.                                    *)
(***************************************************************************)
C18_DayLanesAreMaxConcurrency ==
    LayoutEnded =>
        /\ layout.pc = "returned"
        /\ \A d \in DOMAIN layout.day_lanes : layout.day_lanes[d] = MaxConcurrent(d)

(* a slot the grid has a cell for: a shown day and a period of PERIODS *)
WellFormed(sl) == sl[1] \in SeqToSet(layout.show_days) /\ sl[2] \in PERIOD_INDEX

(* the label of course c is in the cell of slot sl and of the lane of c *)
Written(c, sl) ==
    LET cell == <<sl[2], day_offset_of(layout.show_days, layout.day_lanes)[sl[1]]
                             + (DictGet(layout.lane_of, c, 1) - 1)>>
    IN  cell \in DOMAIN layout.matrix /\ c \in SeqToSet(layout.matrix[cell])

(***************************************************************************)
(* C19: a malformed slot identifier of an included course (unknown day or  *)
(* unknown period) is skipped on its own: building the grid never aborts,  *)
(* and every well-formed slot of every included course is written into the *)
(* grid.                                                                   *)
(***************************************************************************)
C19_GridNeverAborts ==
    /\ layout.pc # "raised"
    /\ layout.pc = "returned" =>
          \A c \in IncludedRows : \A sl \in courses_df[c].slots :
              WellFormed(sl) => Written(c, sl)

(* d is processed before c: more slots first, then the smaller id *)
ProcessedBefore(d, c) ==
    \/ Cardinality(courses_df[d].slots) > Cardinality(courses_df[c].slots)
    \/ Cardinality(courses_df[d].slots) = Cardinality(courses_df[c].slots) /\ d < c

(* the lanes held by the courses processed before c that share a slot with c *)
LanesHeldAgainst(c) ==
    {layout.lane_of[d] : d \in {e \in DOMAIN layout.lane_of :
                                   ProcessedBefore(e, c) /\ SharesSlot(e, c)}}

(***************************************************************************)
(* C21: lane assignment is greedy lowest-free: with the included courses   *)
(* processed by descending slot count, then ascending id, each course with *)
(* a slot receives the smallest lane (1-based) not held by a course        *)
(* processed before it that shares a slot with it; a course that shares no *)
(* slot with another included course receives lane 1.                      *)
(***************************************************************************)
C21_GreedyLowestFreeLane ==
    \A c \in DOMAIN layout.lane_of :
        /\ \A d \in IncludedRows : ProcessedBefore(d, c) => d \in DOMAIN layout.lane_of
        /\ layout.lane_of[c] >= 1
        /\ layout.lane_of[c] \notin LanesHeldAgainst(c)
        /\ \A l \in 1..(layout.lane_of[c] - 1) : l \in LanesHeldAgainst(c)
        /\ (\A d \in IncludedRows \ {c} : ~SharesSlot(d, c)) => layout.lane_of[c] = 1

(* all lanes are assigned; a course took lane 1 below a course of lane 2   *)
(* processed before it, with which it shares a slot                        *)
C21_Witness ==
    /\ layout.pc \in {"day_lanes", "raised"}
    /\ \E c, d \in DOMAIN layout.lane_of :
          /\ ProcessedBefore(d, c) /\ SharesSlot(d, c)
          /\ layout.lane_of[d] = 2
          /\ layout.lane_of[c] = 1

(* the largest lane of an included course with a slot on day d, 1 if none *)
LargestLaneOn(d) ==
    Max({1} \cup {DictGet(layout.lane_of, c, 1) :
                     c \in {e \in IncludedRows : \E sl \in courses_df[e].slots : sl[1] = d}})

(***************************************************************************)
(* C22: for every shown day the lane count equals the largest lane of any  *)
(* included course having a slot on that day (1 when there is none); the   *)
(* grid's column count equals the sum of the shown days' lane counts, and  *)
(* the column-to-day list names each shown day exactly lane-count times,   *)
(* in day order.                                                           *)
(***************************************************************************)
C22_DayLanesAndColumns ==
    LayoutEnded =>
        /\ layout.pc = "returned"
        /\ DOMAIN layout.day_lanes = SeqToSet(layout.show_days)
        /\ \A d \in DOMAIN layout.day_lanes : layout.day_lanes[d] = LargestLaneOn(d)
        /\ Cardinality({cell[2] : cell \in DOMAIN layout.matrix})
              = SumSeq([k \in 1..Len(layout.show_days) |-> layout.day_lanes[layout.show_days[k]]])
        /\ Len(layout.col_day_idx)
              = SumSeq([k \in 1..Len(layout.show_days) |-> layout.day_lanes[layout.show_days[k]]])
        /\ \A j \in 1..Len(layout.show_days) :
              Cardinality({i \in 1..Len(layout.col_day_idx) : layout.col_day_idx[i] = j - 1})
                  = layout.day_lanes[layout.show_days[j]]
        /\ \A i, k \in 1..Len(layout.col_day_idx) :
              i < k => layout.col_day_idx[i] <= layout.col_day_idx[k]

(***************************************************************************)
(* The time selection (app_mainwindow.py 972-999, 1051-1157, 1221-1232,    *)
(* 1298-1302).  A word of the selection is the set of its set bits.        *)
(***************************************************************************)
SATURDAY == 5

(* _calc_show_days, as indexes into DAYS *)
calc_show_days(sat) == IF sat THEN <<0, 1, 2, 3, 4, 5>> ELSE <<0, 1, 2, 3, 4>>

(* _slot_mask_lo[di][rr], _slot_mask_hi[di][rr] as _rebuild_slot_masks     *)
(* fills them for the days shown                                           *)
slot_mask(sat, di, rr) == slot_to_mask(calc_show_days(sat)[di + 1], rr)

tt_is_time_selected(day_idx, row) ==
    /\ day_idx \in 0..(Len(calc_show_days(show_saturday)) - 1)
    /\ row \in PERIOD_INDEX
    /\ LET m == slot_mask(show_saturday, day_idx, row)
       IN  sel_lo \cap m.lo # {} \/ sel_hi \cap m.hi # {}

(* the whole high word is cleared, not the bits of Saturday alone *)
clear_saturday_selection_bits_whole_word(lo, hi) ==
    [lo |-> lo \ UNION {slot_to_mask(SATURDAY, p).lo : p \in PERIOD_INDEX}, hi |-> {}]

(* _clear_saturday_selection_bits, lines 991-999 *)
clear_saturday_selection_bits(lo, hi) ==
    [lo |-> lo \ UNION {slot_to_mask(SATURDAY, p).lo : p \in PERIOD_INDEX},
     hi |-> hi \ UNION {slot_to_mask(SATURDAY, p).hi : p \in PERIOD_INDEX}]

Clamp(x, top) == Max({0, Min({top, x})})

(* _apply_tt_drag_rect, lines 1135-1157: the new words *)
apply_tt_drag_rect(state, base_lo, base_hi, r0, r1, d0, d1) ==
    LET rows == Clamp(r0, BITS_PER_DAY - 1)..Clamp(r1, BITS_PER_DAY - 1)
        top == Len(calc_show_days(show_saturday)) - 1
        days == Clamp(d0, top)..Clamp(d1, top)
        lo == UNION {slot_mask(show_saturday, di, rr).lo : di \in days, rr \in rows}
        hi == UNION {slot_mask(show_saturday, di, rr).hi : di \in days, rr \in rows}
    IN  IF state THEN [lo |-> base_lo \cup lo, hi |-> base_hi \cup hi]
                 ELSE [lo |-> base_lo \ lo, hi |-> base_hi \ hi]

(* eventFilter, MouseButtonPress on the cell of row r in a column of day   *)
(* di (lines 1055-1078); tt_day_idx_from_col gives None for a day index    *)
(* that is not shown.                                                      *)
mouse_press(r, di) ==
    /\ di \in 0..(Len(calc_show_days(show_saturday)) - 1)
    /\ LET state == ~tt_is_time_selected(di, r)
           new == apply_tt_drag_rect(state, sel_lo, sel_hi, r, r, di, di)
       IN  /\ tt_drag' = [dragging |-> TRUE, state |-> state, start |-> <<r, di>>,
                          base_lo |-> sel_lo, base_hi |-> sel_hi,
                          last_rect |-> <<r, r, di, di>>,
                          initial_rect |-> <<r, r, di, di>>, has_moved |-> FALSE]
           /\ sel_lo' = new.lo
           /\ sel_hi' = new.hi
    /\ UNCHANGED <<workers, queue, tableVars, sessionVars, liveVars, saveVars, favVars, panelVars, diskVars,
                   show_saturday>>

(* eventFilter, MouseMove with the left button held (lines 1080-1111) *)
mouse_move(r, di) ==
    /\ tt_drag.dragging
    /\ di \in 0..(Len(calc_show_days(show_saturday)) - 1)
    /\ LET sr == tt_drag.start[1]
           sd == tt_drag.start[2]
           rect == <<Min({sr, r}), Max({sr, r}), Min({sd, di}), Max({sd, di})>>
           new == apply_tt_drag_rect(tt_drag.state, tt_drag.base_lo, tt_drag.base_hi,
                                     rect[1], rect[2], rect[3], rect[4])
       IN  IF tt_drag.last_rect = rect
           THEN UNCHANGED <<tt_drag, sel_lo, sel_hi>>
           ELSE /\ tt_drag' = [tt_drag EXCEPT
                                  !.last_rect = rect,
                                  !.has_moved = @ \/ rect # tt_drag.initial_rect]
                /\ sel_lo' = new.lo
                /\ sel_hi' = new.hi
    /\ UNCHANGED <<workers, queue, tableVars, sessionVars, liveVars, saveVars, favVars, panelVars, diskVars,
                   show_saturday, edits>>

(* eventFilter, MouseButtonRelease (lines 1113-1130): a drag that came     *)
(* back to its first cell restores the selection of the press.             *)
mouse_release ==
    /\ tt_drag.dragging
    /\ IF tt_drag.has_moved /\ tt_drag.last_rect = tt_drag.initial_rect
       THEN sel_lo' = tt_drag.base_lo /\ sel_hi' = tt_drag.base_hi
       ELSE UNCHANGED <<sel_lo, sel_hi>>
    /\ tt_drag' = [tt_drag EXCEPT !.dragging = FALSE, !.state = FALSE, !.start = <<>>,
                                  !.last_rect = <<>>, !.initial_rect = <<>>,
                                  !.has_moved = FALSE]
    /\ UNCHANGED <<workers, queue, tableVars, sessionVars, liveVars, saveVars, favVars, panelVars, diskVars,
                   show_saturday, edits>>

(* on_clear_time_selection, lines 1298-1302 (on_clear_all_conditions ends  *)
(* with it, line 1355)                                                     *)
on_clear_time_selection ==
    /\ sel_lo' = {}
    /\ sel_hi' = {}
    /\ UNCHANGED <<workers, queue, tableVars, sessionVars, liveVars, saveVars, favVars, panelVars, diskVars,
                   show_saturday, tt_drag, edits>>

(* _set_show_saturday, lines 1221-1232.  show_days and the slot masks are  *)
(* rebuilt from show_saturday; the redraw and the search read the          *)
(* selection.                                                              *)
set_show_saturday(checked) ==
    /\ IF show_saturday = checked
       THEN UNCHANGED <<show_saturday, sel_lo, sel_hi>>
       ELSE /\ show_saturday' = checked
            /\ IF ~checked
               THEN /\ sel_lo' = clear_saturday_selection_bits(sel_lo, sel_hi).lo
                    /\ sel_hi' = clear_saturday_selection_bits(sel_lo, sel_hi).hi
               ELSE UNCHANGED <<sel_lo, sel_hi>>
    /\ UNCHANGED <<workers, queue, tableVars, sessionVars, liveVars, saveVars, favVars, panelVars, diskVars,
                   tt_drag, edits>>

(***************************************************************************)
(* SpecSel: the window with a table loaded and no favorites.  The mouse is *)
(* pressed at most MaxClicks times, on a cell of the first or the last     *)
(* period of Monday, Friday or Saturday (when shown), and moved over such  *)
(* cells; the Saturday button and the clear button are used at will.       *)
(***************************************************************************)
DragRows == {0, BITS_PER_DAY - 1}

(* Monday, Friday (its periods 4 to D are in the high word) and Saturday *)
DragDays == {0, 4, SATURDAY}

InitSel ==
    /\ courses_df = session_table
    /\ favorites_ids = {}
    /\ included_ids = {}
    /\ locked_ids = {}
    /\ fav_seq = <<>>
    /\ fav_seq_next = 1
    /\ session_backup = NoBackup
    /\ workers = <<>>
    /\ queue = <<>>
    /\ best_worker = NoWorker
    /\ best_running = FALSE
    /\ best_token = 0
    /\ best_files = <<>>
    /\ history_mode = "none"
    /\ best_progress = 0
    /\ btn_best_schedule = TRUE
    /\ best_cache = NoCache
    /\ best_dir = {}
    /\ edits = 0
    /\ layout = NoLayout
    /\ readonly_mode = FALSE
    /\ history_selected_file = NoFile
    /\ session_file = NoFile
    /\ user_files = {}
    /\ live_session = NoBackup
    /\ username = 1
    /\ session_file_path = <<1, 1>>
    /\ save = NoSave
    /\ save_workers = <<>>
    /\ login_files = <<>>
    /\ sel_lo = {}
    /\ sel_hi = {}
    /\ show_saturday = FALSE
    /\ tt_drag = NoDrag

MousePress ==
    /\ edits < MaxClicks
    /\ edits' = edits + 1
    /\ \E r \in DragRows, di \in DragDays : mouse_press(r, di)

MouseMove == \E r \in DragRows, di \in DragDays : mouse_move(r, di)

MouseRelease == mouse_release

ClearTimeSelection == on_clear_time_selection

SetShowSaturday == \E checked \in BOOLEAN : set_show_saturday(checked)

NextSel == MousePress \/ MouseMove \/ MouseRelease \/ ClearTimeSelection \/ SetShowSaturday

SpecSel == InitSel /\ [][NextSel]_vars

(* the selection as one 128-bit mask *)
Sel128 == Mask128(sel_lo, sel_hi)

SaturdayBits == {BitPosition(<<SATURDAY, p>>) : p \in PERIOD_INDEX}

(***************************************************************************)
(* C23: hiding Saturday clears exactly the Saturday bits of the            *)
(* time-selection bitset: in the state after the step that hides Saturday  *)
(* no Saturday slot is selected, and every bit that is not a Saturday bit  *)
(* is set after the step exactly when it was set before it.                *)
(***************************************************************************)
C23_HideSaturdayClearsSaturdayOnly ==
    [][(show_saturday /\ ~show_saturday') =>
          /\ Sel128' \cap SaturdayBits = {}
          /\ \A b \in 0..(2 * WordBits - 1) :
                b \notin SaturdayBits => (b \in Sel128' <=> b \in Sel128)]_vars

(* Saturday was hidden while Saturday slots and a late Friday slot (in the *)
(* high word) were selected: the selection still holds the Friday slot and *)
(* Monday's first period, no Saturday slot, and the selection saved at the *)
(* last press, after which nothing was selected or deselected, holds       *)
(* Saturday slots.                                                         *)
C23_Witness ==
    /\ ~show_saturday
    /\ ~tt_drag.dragging
    /\ Mask128(tt_drag.base_lo, tt_drag.base_hi) \cap SaturdayBits # {}
    /\ BitPosition(<<4, BITS_PER_DAY - 1>>) \in Sel128
    /\ BitPosition(<<0, 0>>) \in Sel128
    /\ Sel128 \cap SaturdayBits = {}

(***************************************************************************)
(* The cross-combination without the cut-offs of lines 291-294 and         *)
(* 299-300: every left entry is taken, every right entry is tried in the   *)
(* order of the two lists, and every mask-disjoint pair is handed to       *)
(* consider_combo.                                                         *)
(***************************************************************************)
cross_step_every_pair(cs, cx) ==
    LET left == cx.left_list[cs.li]
        nextLeft == [cs EXCEPT !.li = cs.li + 1, !.ri = 0]
    IN  IF cs.ri = 0
        THEN IF cx.right_list = <<>> THEN nextLeft ELSE [cs EXCEPT !.ri = 1]
        ELSE LET right == cx.right_list[cs.ri]
                 advance(s) == IF cs.ri = Len(cx.right_list)
                               THEN [s EXCEPT !.li = cs.li + 1, !.ri = 0]
                               ELSE [s EXCEPT !.ri = cs.ri + 1]
             IN  IF left.mask \cap right.mask # {} THEN advance(cs)
                 ELSE advance([cs EXCEPT
                                 !.best = consider_combo(cs.best, left, right, cx.locked_ids,
                                                         cx.base_credit, cx.order_map),
                                 !.done_pairs = cs.done_pairs + 1])

RECURSIVE cross_run_every_pair(_, _)
cross_run_every_pair(cs, cx) ==
    IF cross_done(cs, cx) THEN cs ELSE cross_run_every_pair(cross_step_every_pair(cs, cx), cx)

(* the lists and the base that the cross-combination of worker 1 starts from *)
CrossContext1 ==
    LET p == prepare(worker_inputs(1))
    IN  cross_context(p, enumerate_half(p.left_items, p.order_map),
                         enumerate_half(p.right_items, p.order_map))

(* lines 187-188: nothing to combine *)
NothingToCombine ==
    LET p == prepare(worker_inputs(1)) IN p.cand = <<>> /\ p.locked_ids = <<>>

(* the loop states the cross-combination goes through, from cs on *)
RECURSIVE cross_trace(_, _)
cross_trace(cs, cx) ==
    IF cross_done(cs, cx) THEN {} ELSE {cs} \cup cross_trace(cross_step(cs, cx), cx)

(* lines 291-294: the left entry of cs is skipped *)
LeftSkippedAt(cs, cx) ==
    /\ cs.ri = 0
    /\ Len(cs.best) = TopK
    /\ cx.base_credit + cx.left_list[cs.li].credit + max_right_credit(cx)
          < cs.best[Len(cs.best)].credits

(* lines 298-300: the loop over the right list is left at cs *)
RightBrokenAt(cs, cx) ==
    /\ cs.ri >= 1
    /\ Len(cs.best) = TopK
    /\ cx.base_credit + cx.left_list[cs.li].credit + cx.right_list[cs.ri].credit
          < cs.best[Len(cs.best)].credits

(***************************************************************************)
(* SpecCross: _compute_best_combinations on a table of NumCourses + 1      *)
(* optional courses (two courses in each half when NumCourses = 3, so that *)
(* the list of five is full before the last left entries are reached).     *)
(* Every course is a favorite in the timetable and has 1 or 2 credits; its *)
(* one slot is period 3 of a day of its own, or one of two slots that      *)
(* other courses may have too (Friday period 10, Monday period 4).  The    *)
(* ranks follow the ids upwards or downwards.                              *)
(***************************************************************************)
CrossCourses == 1..(NumCourses + 1)

CrossSlots(c, kind) ==
    IF kind = "own" THEN {<<c - 1, 3>>} ELSE IF kind = "friday" THEN {SlotB} ELSE {SlotD}

InitCross ==
    /\ \E cr \in [CrossCourses -> Credits],
          kind \in [CrossCourses -> {"own", "friday", "monday"}] :
          courses_df = [c \in CrossCourses |-> course_row(cr[c], CrossSlots(c, kind[c]))]
    /\ favorites_ids = CrossCourses
    /\ included_ids = CrossCourses
    /\ locked_ids = {}
    /\ fav_seq \in {[c \in CrossCourses |-> IF up THEN c ELSE NumCourses + 2 - c] :
                       up \in BOOLEAN}
    /\ fav_seq_next = NumCourses + 2
    /\ session_backup = [present |-> TRUE, favorites |-> favorites_ids,
                         included |-> included_ids, locked |-> locked_ids, seq |-> fav_seq]
    /\ workers = (1 :> new_worker(1, favorites_ids, locked_ids, included_ids, fav_seq,
                                  courses_df))
    /\ queue = <<>>
    /\ best_worker = 1
    /\ best_running = TRUE
    /\ best_token = 1
    /\ best_files = <<>>
    /\ history_mode = "best"
    /\ best_progress = 0
    /\ btn_best_schedule = FALSE
    /\ best_cache = NoCache
    /\ best_dir = {}
    /\ edits = 0
    /\ layout = NoLayout
    /\ readonly_mode = FALSE
    /\ history_selected_file = NoFile
    /\ session_file = save_user_file(favorites_ids, included_ids, locked_ids, fav_seq)
    /\ user_files = {}
    /\ live_session = NoBackup
    /\ username = 1
    /\ session_file_path = <<1, 1>>
    /\ save = NoSave
    /\ save_workers = <<>>
    /\ login_files = <<>>
    /\ sel_lo = {}
    /\ sel_hi = {}
    /\ show_saturday = FALSE
    /\ tt_drag = NoDrag

NextCross == Search

SpecCross == InitCross /\ [][NextCross]_vars

(***************************************************************************)
(* C24: the cut-offs of the cross-combination step (skipping a left entry, *)
(* breaking out of the right list) never change the outcome: the list the  *)
(* search returns equals the list obtained by handing every mask-disjoint  *)
(* (left entry, right entry) pair to consider_combo, in the same order,    *)
(* without any cut-off.                                                    *)
(***************************************************************************)
C24_CutOffsKeepTheOutcome ==
    workers[1].pc = "computed" =>
        workers[1].results = (IF NothingToCombine THEN <<>>
                              ELSE cross_run_every_pair(CrossStart0, CrossContext1).best)

(* a finished search in which both cut-offs were taken: a left entry was   *)
(* skipped and the right list was left early, so that fewer pairs were     *)
(* combined than there are mask-disjoint pairs                             *)
C24_Witness ==
    /\ workers[1].pc = "computed"
    /\ Len(workers[1].results) = TopK
    /\ \E cs \in cross_trace(CrossStart0, CrossContext1) : LeftSkippedAt(cs, CrossContext1)
    /\ \E cs \in cross_trace(CrossStart0, CrossContext1) : RightBrokenAt(cs, CrossContext1)
    /\ cross_run(CrossStart0, CrossContext1).done_pairs
          < cross_run_every_pair(CrossStart0, CrossContext1).done_pairs

(***************************************************************************)
(* Lines 105-178 as a function of the lane map, with the rows bound as     *)
(* line 139 binds them: the conflict list the statements behind line 113   *)
(* compute from the lanes that build_lane_assignment_sorted assigned.      *)
(***************************************************************************)
ConflictsOf(lane_map) ==
    LET subset_meta == subset_courses_by_ids(courses_df, included_ids)
        ones == [d \in SeqToSet(layout.show_days) |-> 1]
        day_lanes == day_lanes_rows(ones, subset_meta, courses_df, lane_map)
        day_offset == day_offset_of(layout.show_days, day_lanes)
        cols == SumSeq([k \in 1..Len(layout.show_days) |-> day_lanes[layout.show_days[k]]])
    IN  uniq_of(write_rows(empty_grid(cols), subset_meta, courses_df, lane_map,
                           locked_ids, day_offset).conflict_slots)

(* build_lane_assignment_sorted has returned (line 104) *)
LanesAssigned == layout.pc = "day_lanes"

Users == {1, 2}

(* the user's directory, and history[0]: its file with the greatest name *)
user_dir(u) == {p \in DOMAIN login_files : p[1] = u}

newest_file(u) == CHOOSE p \in user_dir(u) : \A q \in user_dir(u) : q[2] <= p[2]

(* schedule_autosave(250) at the end of a handler that changed the sets,   *)
(* lines 2192-2212                                                         *)
schedule_autosave ==
    IF readonly_mode \/ username = NoUser \/ session_file_path = <<>>
    THEN UNCHANGED save
    ELSE save' = [save EXCEPT
                     !.token = save.token + 1,
                     !.latest_token = save.token + 1,
                     !.pending_snapshot =
                         [present |-> TRUE, fav |-> favorites_ids',
                          inc |-> included_ids' \cup locked_ids', lock |-> locked_ids',
                          seq |-> fav_seq', token |-> save.token + 1,
                          path |-> session_file_path, user |-> username],
                     !.pending = TRUE,
                     !.timer = TRUE]

(* SaveWorker.__init__, app_workers.py 18-41 *)
new_save_worker(token, path, user, snapshot) ==
    [token |-> token, path |-> path, username |-> user, snapshot |-> snapshot,
     pc |-> "queued"]

(* _autosave_now taking the path and the username of the snapshot *)
autosave_now_own_path(s) ==
    IF \/ readonly_mode
       \/ ~s.pending
       \/ username = NoUser
       \/ session_file_path = <<>>
       \/ s.inflight
       \/ ~s.pending_snapshot.present
    THEN save' = s /\ UNCHANGED save_workers
    ELSE /\ save' = [s EXCEPT !.pending = FALSE, !.inflight = TRUE]
         /\ save_workers' = Append(save_workers,
                                   new_save_worker(s.latest_token, s.pending_snapshot.path,
                                                   s.pending_snapshot.user,
                                                   s.pending_snapshot))

(* _autosave_now, lines 2214-2248, entered with the autosave fields s *)
autosave_now(s) ==
    IF \/ readonly_mode
       \/ ~s.pending
       \/ username = NoUser
       \/ session_file_path = <<>>
       \/ s.inflight
       \/ ~s.pending_snapshot.present
    THEN save' = s /\ UNCHANGED save_workers
    ELSE /\ save' = [s EXCEPT !.pending = FALSE, !.inflight = TRUE]
         /\ save_workers' = Append(save_workers,
                                   new_save_worker(s.latest_token, session_file_path,
                                                   username, s.pending_snapshot))

(* on_result_favorite_toggled, lines 2148-2190, with its last calls *)
toggle_and_schedule(cid, checked) ==
    /\ username # NoUser
    /\ session_file_path # <<>>
    /\ result_favorite_toggled_sets(cid, checked)
    /\ IF readonly_mode \/ (~checked /\ cid \in locked_ids)
       THEN UNCHANGED save
       ELSE schedule_autosave
    /\ UNCHANGED <<workers, queue, tableVars, sessionVars, liveVars, selVars, panelVars, diskVars,
                   username, session_file_path, save_workers, login_files>>

(* the timeout of _autosave_timer (line 224) *)
autosave_timeout ==
    /\ save.timer
    /\ autosave_now([save EXCEPT !.timer = FALSE])
    /\ UNCHANGED <<workers, queue, tableVars, sessionVars, liveVars, selVars, favVars, panelVars,
                   diskVars, username, session_file_path, login_files, edits>>

(* QTimer.singleShot(0, self._autosave_now) of line 2253 fires *)
single_shot_autosave ==
    /\ save.single_shots > 0
    /\ autosave_now([save EXCEPT !.single_shots = @ - 1])
    /\ UNCHANGED <<workers, queue, tableVars, sessionVars, liveVars, selVars, favVars, panelVars,
                   diskVars, username, session_file_path, login_files, edits>>

(* SaveWorker.run, app_workers.py 43-55, for a write that succeeds *)
save_worker_run(i) ==
    LET w == save_workers[i]
        written == [file |-> save_user_file(w.snapshot.fav, w.snapshot.inc,
                                            w.snapshot.lock, w.snapshot.seq),
                    username |-> w.username, snapshot |-> w.snapshot]
    IN  /\ w.pc = "queued"
        /\ login_files' = [p \in DOMAIN login_files \cup {w.path} |->
                              IF p = w.path THEN written ELSE login_files[p]]
        /\ save_workers' = [save_workers EXCEPT ![i].pc = "done"]
        /\ queue' = Append(queue, [token |-> w.token, ok |-> TRUE])
        /\ UNCHANGED <<workers, tableVars, sessionVars, liveVars, selVars, favVars, panelVars,
                       diskVars, username, session_file_path, save, edits>>

(* _on_save_finished, lines 2250-2258, for the signal at the head of the   *)
(* event queue                                                             *)
on_save_finished ==
    /\ queue # <<>>
    /\ queue' = Tail(queue)
    /\ save' = [save EXCEPT !.inflight = FALSE,
                            !.single_shots = IF save.pending THEN @ + 1 ELSE @]
    /\ UNCHANGED <<workers, tableVars, sessionVars, liveVars, selVars, favVars, panelVars, diskVars,
                   username, session_file_path, save_workers, login_files, edits>>

(* on_login, lines 1440-1509, with the name u in the user box *)
on_login_as(u) ==
    LET path == <<u, Cardinality(user_dir(u)) + 1>>
        inherited == IF user_dir(u) = {}
                     THEN [fav |-> {}, inc |-> {}, seq |-> <<>>, lock |-> {}]
                     ELSE load_user_file(login_files[newest_file(u)].file)
    IN  /\ username' = u
        /\ session_file_path' = path
        /\ replace_sets_from(inherited)
        /\ login_files' = [p \in DOMAIN login_files \cup {path} |->
                              IF p = path
                              THEN [file |-> save_user_file(favorites_ids', included_ids',
                                                            locked_ids', fav_seq'),
                                    username |-> u, snapshot |-> NoSnapshot]
                              ELSE login_files[p]]
        /\ session_backup' = NoBackup
        /\ history_selected_file' = NoFile
        /\ readonly_mode' = FALSE
        /\ UNCHANGED <<workers, queue, tableVars, liveVars, selVars, session_file, user_files,
                       best_worker, best_running, best_token, best_files, history_mode,
                       best_progress, btn_best_schedule, diskVars, save, save_workers>>

(***************************************************************************)
(* SpecSave: user 1 is logged in for the second time with course 1 as the  *)
(* one favorite; the file of the first login is in the directory.  At most *)
(* MaxClicks stars are toggled and logins made; the history panel is       *)
(* opened, a file of the list is selected and the panel is left at will;   *)
(* timers fire and SaveWorkers run at any time.                            *)
(***************************************************************************)
FirstLoginFile ==
    [file |-> save_user_file({1}, {1}, {}, (1 :> 1)), username |-> 1,
     snapshot |-> NoSnapshot]

InitSave ==
    /\ courses_df = session_table
    /\ favorites_ids = {1}
    /\ included_ids = {1}
    /\ locked_ids = {}
    /\ fav_seq = (1 :> 1)
    /\ fav_seq_next = 2
    /\ session_backup = NoBackup
    /\ workers = <<>>
    /\ queue = <<>>
    /\ best_worker = NoWorker
    /\ best_running = FALSE
    /\ best_token = 0
    /\ best_files = <<>>
    /\ history_mode = "none"
    /\ best_progress = 0
    /\ btn_best_schedule = TRUE
    /\ best_cache = NoCache
    /\ best_dir = {}
    /\ edits = 0
    /\ layout = NoLayout
    /\ readonly_mode = FALSE
    /\ history_selected_file = NoFile
    /\ session_file = NoFile
    /\ user_files = {}
    /\ live_session = NoBackup
    /\ sel_lo = {}
    /\ sel_hi = {}
    /\ show_saturday = FALSE
    /\ tt_drag = NoDrag
    /\ username = 1
    /\ session_file_path = <<1, 2>>
    /\ save = NoSave
    /\ save_workers = <<>>
    /\ login_files = (<<1, 1>> :> FirstLoginFile) @@ (<<1, 2>> :> FirstLoginFile)

SaveToggle ==
    \E cid \in Courses : Click(toggle_and_schedule(cid, cid \notin favorites_ids))

SaveLogin == \E u \in Users : Click(on_login_as(u))

AutosaveTimeout == autosave_timeout

SingleShotAutosave == single_shot_autosave

SaveWorkerRun == \E i \in DOMAIN save_workers : save_worker_run(i)

OnSaveFinished == on_save_finished

SaveToggleHistory == Browse(on_toggle_history)

(* a row of the history list: a file of the user's directory that is not   *)
(* the session file (lines 2276-2278)                                      *)
SaveHistorySelected ==
    /\ history_mode = "history"
    /\ \E p \in user_dir(username) \ {session_file_path} :
          Browse(on_history_selected(login_files[p].file))

SaveBackToSession == Browse(on_back_to_session)

NextSave ==
    \/ SaveToggle
    \/ SaveLogin
    \/ AutosaveTimeout
    \/ SingleShotAutosave
    \/ SaveWorkerRun
    \/ OnSaveFinished
    \/ SaveToggleHistory
    \/ SaveHistorySelected
    \/ SaveBackToSession

SpecSave == InitSave /\ [][NextSave]_vars

(***************************************************************************)
(* C26: an autosave writes a favorites snapshot only to the session file   *)
(* and under the username that were current when schedule_autosave took    *)
(* the snapshot: every file a SaveWorker is to write or has written is the *)
(* session file of the snapshot's moment and carries that moment's         *)
(* username, in every interleaving of schedule_autosave, the timers, the   *)
(* SaveWorkers and on_login.                                               *)
(***************************************************************************)
C26_SnapshotKeepsItsFile ==
    /\ \A i \in DOMAIN save_workers :
          /\ save_workers[i].path = save_workers[i].snapshot.path
          /\ save_workers[i].username = save_workers[i].snapshot.user
    /\ \A p \in DOMAIN login_files :
          login_files[p].snapshot.present =>
             /\ login_files[p].snapshot.path = p
             /\ login_files[p].snapshot.user = login_files[p].username

(***************************************************************************)
(* SpecSaveFair: SpecSave with the event loop and the thread pool doing    *)
(* their work: an active timer fires, a queued SaveWorker runs, a queued   *)
(* finished signal is delivered.  Nothing is assumed about the user.       *)
(***************************************************************************)
SpecSaveFair ==
    /\ InitSave
    /\ [][NextSave]_vars
    /\ WF_vars(AutosaveTimeout)
    /\ WF_vars(SingleShotAutosave)
    /\ WF_vars(SaveWorkerRun)
    /\ WF_vars(OnSaveFinished)

(* the snapshot taken with token t is on disk *)
SnapshotWritten(t) == \E p \in DOMAIN login_files : login_files[p].snapshot.token = t

(* the snapshot taken with token t waits to be written *)
SnapshotPending(t) == save.pending /\ save.pending_snapshot.token = t

(***************************************************************************)
(* C27: every snapshot taken by schedule_autosave is eventually written to *)
(* disk by a SaveWorker unless a later snapshot supersedes it, also when   *)
(* it was taken while another save was in flight or when a read-only       *)
(* preview begins before the autosave timer fires; timers fire and workers *)
(* finish (SpecSaveFair), and the user leaves every preview again.         *)
(***************************************************************************)
C27_SnapshotsReachDisk ==
    \A t \in 1..MaxClicks :
        ([]<>(~readonly_mode)) =>
            (SnapshotPending(t) ~> (SnapshotWritten(t) \/ save.latest_token > t))

(***************************************************************************)
(* SpecCache: the window of Spec with the user editing between the runs:   *)
(* while the panel is closed, the schedule and lock boxes of the favorites *)
(* table are clicked and its rows dragged to another rank, at most         *)
(* MaxEdits times; best-schedule runs are started and run to their end,    *)
(* and the result panel is closed.                                         *)
(***************************************************************************)
CacheCellChanged ==
    /\ history_mode = "none"
    /\ \E cid \in Courses, col \in {"schedule", "lock"} :
          Edit(on_fav_cell_changed(cid, col))

CacheReordered ==
    /\ history_mode = "none"
    /\ \E src \in 1..NumCourses, dest \in 0..NumCourses :
          Edit(on_favorites_reordered(src, dest))

CacheStart == Browse(on_start_best_schedule)

CacheBackToSession == Browse(on_back_to_session)

CacheDeliverFinished == Browse(DeliverFinished)

CacheDeliverProgress == Browse(DeliverProgress)

CacheWorkerStep == \E i \in DOMAIN workers : WorkerStep(i)

NextCache ==
    \/ CacheCellChanged
    \/ CacheReordered
    \/ CacheStart
    \/ CacheBackToSession
    \/ CacheDeliverFinished
    \/ CacheDeliverProgress
    \/ CacheWorkerStep

SpecCache == Init /\ [][NextCache]_vars

(* the favorites in priority order: by rank, then by id *)
priority_order(favorites, seq) ==
    StableSort(SortedSeqOfSet(favorites), LAMBDA c : <<DictGet(seq, c, MissingRank), c>>)

(* the run that wrote the cache *)
CacheWriter == CHOOSE i \in DOMAIN workers : workers[i].token = best_cache.updated_at

(* on_start_best_schedule takes the branch of lines 2481-2489 *)
CacheReused ==
    /\ btn_best_schedule
    /\ favorites_ids # {}
    /\ ~best_running
    /\ cache_reusable
    /\ history_mode = "none"
    /\ history_mode' = "best"
    /\ UNCHANGED <<workers, queue>>

(***************************************************************************)
(* C28: whenever on_start_best_schedule reuses the cached best-schedule    *)
(* files, the current favorites, locked set, included set and priority     *)
(* order equal those of the run that wrote the cache.                      *)
(***************************************************************************)
C28_CacheReusedForSameInputs ==
    [][CacheReused =>
          LET w == workers[CacheWriter]
          IN  /\ favorites_ids = w.favorites
              /\ locked_ids = w.locked_ids
              /\ included_ids = w.included_ids
              /\ priority_order(favorites_ids, fav_seq) = priority_order(w.favorites, w.fav_seq)]_vars

(***************************************************************************)
(* SpecRunFair: SpecRun with the thread pool running the worker it was     *)
(* given: a step of run() that can be taken is taken.  Nothing is assumed  *)
(* about cancel().  This is weak fairness of WorkerStep(1), written with   *)
(* the state predicate that says when run() can take a step: at every      *)
(* position but "done" exactly one of the steps of WorkerStep is possible. *)
(***************************************************************************)
RunCanStep == workers[1].pc # "done"

SpecRunFair ==
    /\ InitRun
    /\ [][NextRun]_vars
    /\ ([]<>(~RunCanStep) \/ []<><<WorkerStep(1)>>_vars)

(* the signals of the run in emission order (no slot consumes them in      *)
(* SpecRun): a finished signal is the last one                             *)
FinishedIsLast == \A k \in 1..Len(queue) : queue[k].kind = "finished" => k = Len(queue)

(***************************************************************************)
(* C29: every execution of BestScheduleWorker.run emits exactly one        *)
(* finished event on every path (completed, no result, write failure,      *)
(* cancelled, exception): it never emits a second one, it has emitted one  *)
(* exactly when run() has returned, and it does return; and no progress    *)
(* event is emitted after the finished event.                              *)
(***************************************************************************)
C29_ExactlyOneFinishedAtTheEnd ==
    /\ [](Len(FinishedOf(1)) = (IF workers[1].pc = "done" THEN 1 ELSE 0))
    /\ <>(workers[1].pc = "done" /\ Len(FinishedOf(1)) = 1)
    /\ []FinishedIsLast

(* a run that ended on the exception path after it had emitted progress *)
C29_Witness ==
    /\ workers[1].pc = "done"
    /\ Len(FinishedOf(1)) = 1
    /\ ~FinishedOf(1)[1].ok /\ ~FinishedOf(1)[1].cancelled /\ FinishedOf(1)[1].msg = "error"
    /\ Len(ProgressOf(1)) >= 2
    /\ queue[Len(queue)].kind = "finished"

(***************************************************************************)
(* SpecPanel: the history panel of a logged-in session with the favorites  *)
(* 1 and 2.  The user's directory holds a file of an earlier login or none *)
(* (a first login: the history list, which leaves the session file out, is *)
(* empty).  _enter_history_panel ends with _refresh_history_list and       *)
(* _auto_select_history_first_row (lines 2397, 2296, 2317-2322): with a    *)
(* row in the list the single shot on_history_selected follows at once,    *)
(* before the next click.  The favorites table stays in use while the      *)
(* panel is open and nothing is previewed; the results table is hidden     *)
(* (line 747).  At most MaxClicks edits are made.                          *)
(***************************************************************************)
(* on_history_selected with the record of the live session *)
history_selected_preview(file) ==
    /\ history_selected_state(file)
    /\ live_session' = (IF readonly_mode THEN live_session ELSE capture_session_snapshot)

(* on_toggle_history (2550-2562) opening the panel, _enter_history_panel    *)
(* (2382-2398) and the on_history_selected of the single shot of line 2322 *)
(* for the first row of the list                                           *)
enter_history_panel_first_row(file) ==
    /\ ~(best_running \/ history_mode = "best")
    /\ history_mode = "none"
    /\ history_mode' = "history"
    /\ best_running' = FALSE
    /\ best_files' = <<>>
    /\ btn_best_schedule' = FALSE
    /\ session_backup' = capture_session_snapshot
    /\ history_selected_file' = file
    /\ replace_sets_from(load_user_file(file))
    /\ readonly_mode' = TRUE
    /\ live_session' = (IF readonly_mode THEN live_session ELSE capture_session_snapshot)
    /\ UNCHANGED <<workers, queue, tableVars, saveVars, selVars, session_file, user_files,
                   best_worker, best_token, best_progress, diskVars>>

InitPanel ==
    /\ courses_df = session_table
    /\ favorites_ids = {1, 2}
    /\ included_ids \in {{1, 2}, {1}}
    /\ locked_ids \in {{}, {1}}
    /\ fav_seq = (1 :> 1) @@ (2 :> 2)
    /\ fav_seq_next = 3
    /\ session_backup = NoBackup
    /\ workers = <<>>
    /\ queue = <<>>
    /\ best_worker = NoWorker
    /\ best_running = FALSE
    /\ best_token = 0
    /\ best_files = <<>>
    /\ history_mode = "none"
    /\ best_progress = 0
    /\ btn_best_schedule = TRUE
    /\ best_cache = NoCache
    /\ best_dir = {}
    /\ edits = 0
    /\ layout = NoLayout
    /\ readonly_mode = FALSE
    /\ history_selected_file = NoFile
    /\ session_file = save_user_file(favorites_ids, included_ids, locked_ids, fav_seq)
    /\ user_files \in {{}, {EarlierFile}}
    /\ live_session = NoBackup
    /\ username = 1
    /\ session_file_path = <<1, 1>>
    /\ save = NoSave
    /\ save_workers = <<>>
    /\ login_files = <<>>
    /\ sel_lo = {}
    /\ sel_hi = {}
    /\ show_saturday = FALSE
    /\ tt_drag = NoDrag

PanelResultToggle == history_mode = "none" /\ ResultToggle

PanelOpenEmpty == history_mode = "none" /\ user_files = {} /\ Browse(on_toggle_history)

PanelOpenFirstRow ==
    \E file \in user_files : Browse(enter_history_panel_first_row(file))

PanelClose == history_mode # "none" /\ Browse(on_toggle_history)

PanelHistorySelected ==
    /\ history_mode = "history"
    /\ \E file \in user_files : Browse(history_selected_preview(file))

NextPanel ==
    \/ PanelResultToggle
    \/ FavCellChanged
    \/ DeleteFavorite
    \/ FavoritesReordered
    \/ PanelOpenEmpty
    \/ PanelOpenFirstRow
    \/ PanelClose
    \/ PanelHistorySelected
    \/ BackToSession
    \/ UseSelectedHistory

SpecPanel == InitPanel /\ [][NextPanel]_vars

(* the live session's most recent editable state: the sets themselves      *)
(* while they can be edited, the record taken when a preview replaced them *)
(* otherwise                                                               *)
LiveSession == IF readonly_mode THEN live_session ELSE capture_session_snapshot

(***************************************************************************)
(* C30: going back to the session from the history panel never loses a     *)
(* live edit: after on_back_to_session the favorites, the included set,    *)
(* the locked set and the rank map equal the live session's most recent    *)
(* editable state (the state just before the first read-only preview       *)
(* replaced it), whatever edits and previews happened while the panel was  *)
(* open, and read-only mode is off.                                        *)
(***************************************************************************)
C30_BackToSessionKeepsLiveEdits ==
    [][BackToSession =>
          /\ ~readonly_mode'
          /\ favorites_ids' = LiveSession.favorites
          /\ included_ids' = LiveSession.included
          /\ locked_ids' = LiveSession.locked
          /\ fav_seq' = LiveSession.seq]_vars
=============================================================================
